---- MODULE Spec2Model ----
(***************************************************************************)
(* Model of ekpy.control.core: experiment.n_param_scan (the parameter      *)
(* sweep) and trial() (the trial recorder that names the data file and     *)
(* maintains meta_data.csv).                                               *)
(***************************************************************************)
EXTENDS Integers, Sequences, FiniteSets, TLC

\* ------------------------------------------------------------------ bounds
\* longest candidate list of a scanned parameter
MaxLen == 2
\* largest ntrials
MaxNTrials == 2
\* number of direct trial() calls explored against one directory
MaxCalls == 3

\* --------------------------------------------- texts and python values
\* The text of a csv cell: the digits of n, the digits of n behind a leading
\* zero ("07"), "n.0", the empty field, or any other text (a token sequence).
TInt(n) == [k |-> "int", v |-> n, s |-> <<>>]
TPadded(n) == [k |-> "padded", v |-> n, s |-> <<>>]
TFloat(n) == [k |-> "float", v |-> n, s |-> <<>>]
TEmpty == [k |-> "empty", v |-> 0, s |-> <<>>]
TWord(toks) == [k |-> "word", v |-> 0, s |-> toks]

\* A Python scalar as pandas sees it: an int, a whole-valued float, NaN, or
\* a str with its text.
PyInt(n) == [t |-> "int", v |-> n, x |-> TEmpty]
PyFloat(n) == [t |-> "float", v |-> n, x |-> TEmpty]
PyNaN == [t |-> "nan", v |-> 0, x |-> TEmpty]
PyStr(text) == [t |-> "str", v |-> 0, x |-> text]

\* ---------------------------------------------------------- functions
Range(f) == {f[x] : x \in DOMAIN f}

\* dict.update: d overlaid by e
Update(d, e) ==
  [k \in (DOMAIN d) \cup (DOMAIN e) |-> IF k \in DOMAIN e THEN e[k] ELSE d[k]]

EmptyDict == [k \in {} |-> 0]

RECURSIVE Prod(_)
\* numpy.prod of a sequence of integers (1 for the empty sequence)
Prod(s) == IF s = <<>> THEN 1 ELSE Head(s) * Prod(Tail(s))

\* list[::-1]
Reverse(s) == [i \in 1 .. Len(s) |-> s[Len(s) + 1 - i]]

RECURSIVE Flatten(_)
Flatten(ss) == IF ss = <<>> THEN <<>> ELSE Head(ss) \o Flatten(Tail(ss))

RECURSIVE Product(_)
\* itertools.product(*lists): tuples in lexicographic order of positions,
\* the rightmost list advancing on every element
Product(lists) ==
  IF lists = <<>> THEN << <<>> >>
  ELSE LET rest == Product(Tail(lists))
           h == Head(lists)
       IN Flatten([i \in 1 .. Len(h) |->
                     [j \in 1 .. Len(rest) |-> <<h[i]>> \o rest[j]]])

\* ------------------------------------------------- csv cells (pandas)
\* DataFrame.to_csv of one value: an int prints its digits, a float its
\* value with a fraction, NaN the empty field, a str its own text
ToCsvText(val) ==
  CASE val.t = "int" -> TInt(val.v)
    [] val.t = "float" -> TFloat(val.v)
    [] val.t = "nan" -> TEmpty
    [] OTHER -> val.x

IsIntText(x) == x.k \in {"int", "padded"}
IsNumText(x) == x.k \in {"int", "padded", "float", "empty"}

\* pandas.read_csv type inference of one column, given its texts
ReadCsvColumn(texts) ==
  LET dtype == IF \A i \in DOMAIN texts : IsIntText(texts[i]) THEN "int64"
               ELSE IF \A i \in DOMAIN texts : IsNumText(texts[i])
               THEN "float64" ELSE "object"
  IN [i \in DOMAIN texts |->
        CASE texts[i].k = "empty" -> PyNaN
          [] dtype = "int64" -> PyInt(texts[i].v)
          [] dtype = "float64" -> PyFloat(texts[i].v)
          [] OTHER -> PyStr(texts[i])]

\* pandas.concat of one column: all int stays int64, numeric with a float or
\* NaN becomes float64, anything else is an object column of the values
ConcatColumn(vals) ==
  LET dtype == IF \A i \in DOMAIN vals : vals[i].t = "int" THEN "int64"
               ELSE IF \A i \in DOMAIN vals : vals[i].t # "str"
               THEN "float64" ELSE "object"
  IN [i \in DOMAIN vals |->
        IF dtype = "float64" /\ vals[i].t = "int" THEN PyFloat(vals[i].v)
        ELSE vals[i]]

\* A table is kept by column: [columns |-> set of names, nrows |-> number of
\* rows, col |-> for each column its cells in row order]. On disk the cells
\* are texts, in a DataFrame they are values.
NoFile == [exists |-> FALSE, columns |-> {}, nrows |-> 0, col |-> <<>>]
Table(cols, n, col) == [exists |-> TRUE, columns |-> cols, nrows |-> n, col |-> col]

\* row i of a table
Row(tab, i) == [c \in tab.columns |-> tab.col[c][i]]

\* pandas.DataFrame(meta_data, index=[0])
OneRow(meta_data) ==
  Table(DOMAIN meta_data, 1, [c \in DOMAIN meta_data |-> <<meta_data[c]>>])

\* pandas.read_csv of a table on disk
ReadCsv(tab) ==
  Table(tab.columns, tab.nrows,
        [c \in tab.columns |-> ReadCsvColumn(tab.col[c])])

\* a column of a frame, NaN in every row where the frame lacks the column
ColumnOrNaN(frame, c) ==
  IF c \in frame.columns THEN frame.col[c]
  ELSE [i \in 1 .. frame.nrows |-> PyNaN]

\* pandas.concat([a, b], ignore_index=True): the union of the columns, a
\* missing cell filled with NaN
Concat(a, b) ==
  LET cols == a.columns \cup b.columns
  IN Table(cols, a.nrows + b.nrows,
           [c \in cols |->
              ConcatColumn(ColumnOrNaN(a, c) \o ColumnOrNaN(b, c))])

\* DataFrame.to_csv(index=False)
ToCsv(frame) ==
  Table(frame.columns, frame.nrows,
        [c \in frame.columns |->
           [i \in 1 .. frame.nrows |-> ToCsvText(frame.col[c][i])]])

\* ------------------------------------------------------- file names
\* A file name is a sequence of tokens; "_" and ".csv" are tokens, and a
\* number is the token of its digits.
SaveName(base_name, k) == base_name \o <<"_", ToString(k), ".csv">>

\* get_save_name(base_name, path): the lowest unused numeric suffix
get_save_name(base_name, names) ==
  SaveName(base_name,
           CHOOSE k \in 0 .. Cardinality(names) :
             /\ SaveName(base_name, k) \notin names
             /\ \A j \in 0 .. k - 1 : SaveName(base_name, j) \in names)

\* save_name.split('_')[-1].replace('.csv','')
LastPiece(save_name) ==
  LET cuts == {i \in DOMAIN save_name : save_name[i] = "_"}
      from == IF cuts = {} THEN 1
              ELSE 1 + CHOOSE i \in cuts : \A j \in cuts : j <= i
  IN SelectSeq(SubSeq(save_name, from, Len(save_name)),
               LAMBDA tok : tok # ".csv")

\* the numbers whose digits a piece of a name of this directory can be
Suffixes(names) == 0 .. Cardinality(names)

\* int(piece) succeeds exactly on the digits of a number
IntParses(piece, names) ==
  Len(piece) = 1 /\ \E n \in Suffixes(names) : ToString(n) = piece[1]
IntOf(piece, names) == CHOOSE n \in Suffixes(names) : ToString(n) = piece[1]

\* ------------------------------------------------------------ trial()
\* What one invocation of the run function gives back: it raises, or returns
\* (base_name, meta_data, df), df being a DataFrame or something else.
RunRaises == [kind |-> "raise", base_name |-> <<>>, meta_data |-> EmptyDict, df |-> 0]
RunReturns(base_name, meta_data, df) ==
  [kind |-> "ok", base_name |-> base_name, meta_data |-> meta_data, df |-> df]
RunReturnsNoFrame(base_name, meta_data) ==
  [kind |-> "noframe", base_name |-> base_name, meta_data |-> meta_data, df |-> 0]

\* the file the data is written to: path + save_name
DataFileOverBase(base_name, save_name) == base_name \o <<".csv">>
DataFile(base_name, save_name) == save_name

\* set(meta_data.columns) != set(existing_meta_data.columns) is false
ColumnsAlwaysMatch(new_cols, existing_cols) == TRUE
ColumnsSubset(new_cols, existing_cols) == new_cols \subseteq existing_cols
ColumnsMatch(new_cols, existing_cols) == new_cols = existing_cols

\* out: the existing index followed by the new row
IndexOutNewOnly(existing, row) == row
IndexOut(existing, row) == Concat(existing, row)

\* lines 341-345: the data file after the write step. `writer` is "ok" when
\* write_ekpy_data succeeds (the file has the header and the rows) and
\* "fallback" when it raises and df.to_csv then succeeds (the rows only)
WriteDataNoFallback(dir_files, target, df, meta_data, writer) ==
  IF writer = "ok"
  THEN Update(dir_files, [n \in {target} |->
                            [df |-> df, meta_data |-> meta_data, header |-> TRUE]])
  ELSE dir_files
WriteData(dir_files, target, df, meta_data, writer) ==
  Update(dir_files,
         [n \in {target} |->
            IF writer = "ok"
            THEN [df |-> df, meta_data |-> meta_data, header |-> TRUE]
            ELSE [df |-> df, meta_data |-> EmptyDict, header |-> FALSE]])

\* line 334: the trial number when the name had to be typed in
TrialOnPromptZero == PyInt(0)
TrialOnPrompt == PyNaN

\* lines 351-352 raise before line 357 writes: the index a rejected call
\* leaves behind
IndexOnRejectWritten(dir_index, out) == ToCsv(out)
IndexOnReject(dir_index, out) == dir_index

\* The directory is [files, index, pickle]: the data files by name, the
\* table in meta_data.csv and the DataFrame pickled to meta_data.
\* trial(run_function, run_function_args, path): `ro` is what the run
\* function does, name_fails whether deriving the save name raises, typed
\* the name then entered at the prompt, writer what the write step does
\* ("fails": write_ekpy_data and df.to_csv both raise).
trial(ro, name_fails, typed, writer, save_meta_data_pickle, dir) ==
  LET names == DOMAIN dir.files
      derived == get_save_name(ro.base_name, names)
      prompted == name_fails \/ ~IntParses(LastPiece(derived), names)
      save_name == IF prompted THEN typed ELSE derived
      trial_no == IF prompted THEN TrialOnPrompt
                  ELSE PyInt(IntOf(LastPiece(derived), names))
      meta_data == Update(ro.meta_data,
                          [k \in {"trial", "filename"} |->
                             IF k = "trial" THEN trial_no
                             ELSE PyStr(TWord(save_name))])
      target == DataFile(ro.base_name, save_name)
      written == WriteData(dir.files, target, ro.df, meta_data, writer)
      row == OneRow(meta_data)
      existing == ReadCsv(dir.index)
      out == IF dir.index.exists THEN IndexOut(existing, row) ELSE row
      unchanged == [files |-> dir.files, index |-> dir.index,
                    pickle |-> dir.pickle, save_name |-> <<>>,
                    msg_file |-> <<>>, meta_data |-> EmptyDict,
                    prompted |-> FALSE]
  IN CASE ro.kind = "raise" ->
            unchanged @@ [exc |-> "RunError"]
       [] ro.kind = "noframe" ->
            unchanged @@ [exc |-> "AssertionError"]
       [] ro.kind = "ok" /\ writer = "fails" ->
            [files |-> dir.files, index |-> dir.index, pickle |-> dir.pickle,
             save_name |-> save_name, msg_file |-> <<>>,
             meta_data |-> meta_data, prompted |-> prompted,
             exc |-> "OSError"]
       [] ro.kind = "ok" /\ writer # "fails" /\ dir.index.exists
            /\ ~ColumnsMatch(row.columns, existing.columns) ->
            [files |-> written, index |-> IndexOnReject(dir.index, out),
             pickle |-> dir.pickle,
             save_name |-> save_name, msg_file |-> save_name,
             meta_data |-> meta_data, prompted |-> prompted,
             exc |-> "ValueError"]
       [] OTHER ->
            [files |-> written, index |-> ToCsv(out),
             pickle |-> IF save_meta_data_pickle THEN out ELSE dir.pickle,
             save_name |-> save_name, msg_file |-> <<>>,
             meta_data |-> meta_data, prompted |-> prompted, exc |-> "none"]

\* ------------------------------------------------- the sweep's inputs
Keys == {"a", "b"}

\* the i-th candidate of a scanned key: a: 1, 2, ..  b: 10, 20, ..
Candidate(key, i) == IF key = "a" THEN i ELSE 10 * i

\* A value of kw_scan_params: a list of candidates, or something that is not
\* a list: a str (has len and __getitem__), a set (has len only), a scalar
ListOf(key, n) == [kind |-> "list", items |-> [i \in 1 .. n |-> Candidate(key, i)]]
NotAList == {[kind |-> "str", items |-> <<"h", "z">>],
             [kind |-> "set", items |-> <<5>>],
             [kind |-> "scalar", items |-> <<>>]}
ScanValues(key) == {ListOf(key, n) : n \in 0 .. MaxLen} \cup NotAList

ScanParams ==
  UNION {[ks -> UNION {ScanValues(k) : k \in ks}] : ks \in SUBSET Keys}

WellKeyed(scan) == \A k \in DOMAIN scan : scan[k] \in ScanValues(k)

\* scan_param_order: any listing of keys, at most one entry longer than the
\* number of keys (so that a key can be listed twice)
Orders == UNION {[1 .. n -> Keys] : n \in 0 .. Cardinality(Keys) + 1}

FixedParams == {EmptyDict, [k \in {"a", "c"} |-> IF k = "a" THEN 9 ELSE 7]}

\* ------------------------------------------------------------- state
VARIABLES
  checks_raises,        \* the user's checks() rejects the parameters
  has_run_function,     \* hasattr(self, 'run_function')
  has_path,             \* hasattr(self, 'path'): config_path was called
  terminate_overridden, \* the subclass defines terminate()
  kw_scan_params, fixed_params, scan_param_order, ntrials,
  fixed_at_call,        \* fixed_params as the caller passed it
  pc,                   \* "start", "loop", "finally", "exit", "done"
  total_scans, iteration, iterable_param_list,
  pos,                  \* index of the current params in iterable_param_list
  count,                \* trials done for the current params
  pending,              \* the exception being unwound, or "none"
  outcome,              \* "none", "returned", or the exception the caller gets
  events,               \* "run", "terminate", "return", "raise" in order
  calls,                \* the run function's invocations
  progress,             \* the progress lines printed
  files, index, pickle, \* the destination directory
  nruns,                \* invocations of the run function so far
  save_meta_data_pickle, \* trial()'s argument of that name
  writer,               \* what the write step does in this directory: "ok",
                        \* "fallback" (write_ekpy_data raises, df.to_csv
                        \* works) or "fails" (both raise)
  trial_log             \* what each call of trial() was given and did

config == <<checks_raises, has_run_function, has_path, terminate_overridden>>
args == <<kw_scan_params, scan_param_order, ntrials, fixed_at_call>>
sweep == <<fixed_params, pc, total_scans, iteration, iterable_param_list, pos,
           count, pending, outcome, events, calls, progress>>
disk == <<files, index, pickle, nruns, save_meta_data_pickle, writer,
         trial_log>>

VARIABLES
  file_lines,           \* the lines of the one data file read_ekpy_data reads
  origin,               \* who wrote it: "none", "ekpy" (write_ekpy_data),
                        \* "plain" (df.to_csv) or "other"
  given_data,           \* the DataFrame that was written
  given_meta,           \* the meta_data that was written
  return_meta_data,     \* read_ekpy_data's argument of that name
  got                   \* what read_ekpy_data gave

io == <<file_lines, origin, given_data, given_meta, return_meta_data, got>>

VARIABLES
  module_all,           \* module.__all__: the names of the transforms
  skip_func, saveall,   \* use_analysis_file's arguments of those names
  save_path,            \* its argument path
  folders,              \* the numbered snapshot folders already there
  data0,                \* its argument data
  ppc,                  \* "idle", "loop", "search", "done"
  functions_list, warnings,
  step,                 \* transforms gone through (i of the loop)
  data, data_saver, funcs_modified, plotted_against_list, skip_plot_list,
  applied,              \* every data.apply so far: transform, input, result
  data_out,             \* the final result
  raised,               \* the exception use_analysis_file ends with, or "none"
  path, iterator,
  made,                 \* the directories os.mkdir created
  saved                 \* the snapshot files written

pipe_args == <<module_all, skip_func, saveall, save_path, folders, data0>>
pipe == <<ppc, functions_list, warnings, step, data, data_saver,
          funcs_modified, plotted_against_list, skip_plot_list, applied,
          data_out, raised>>
saver == <<path, iterator, made, saved>>

VARIABLES
  doc_string,           \* the docstring get_function_doc_append was given
  doc_tags              \* what it returned: no entry before the call

VARIABLES
  icall,                \* the instrument function called, with its arguments
  sent,                 \* what was written to the instrument, in order
  iexc                  \* the exception the call ended with, or "none"

instr == <<icall, sent, iexc>>

VARIABLES
  dirs,                 \* the directories there are, each the names from the
                        \* root down
  original_path,        \* config_path's argument path
  answer,               \* what the user types at its prompt
  cpc,                  \* "idle", "search", "create", "done"
  cpath,                \* its local path
  to_create,
  self_path,            \* self.path: no entry while it is not set
  cexc                  \* the exception config_path ends with, or "none"

cp == <<dirs, original_path, answer, cpc, cpath, to_create, self_path, cexc>>

more == <<doc_string, doc_tags, instr, cp>>

others == <<io, pipe_args, pipe, saver, more>>
vars == <<config, args, sweep, disk, others>>

NotRead ==
  [kind |-> "none", mode |-> "none", table |-> NoFile, meta_data |-> EmptyDict]

\* no data file has been written or read on its own
NoDataFile ==
  /\ file_lines = <<>>
  /\ origin = "none"
  /\ given_data = NoFile
  /\ given_meta = EmptyDict
  /\ return_meta_data = FALSE
  /\ got = NotRead

\* a data object: its data keys in order and the value of each; None is
\* the object that is none
NoData == [none |-> TRUE, keys |-> <<>>, val |-> EmptyDict]
DataOf(keys, val) == [none |-> FALSE, keys |-> keys, val |-> val]

\* the skip_func argument: None, a name, or a list of names
SkipNone == [kind |-> "none", names |-> <<>>]
SkipName(name) == [kind |-> "str", names |-> <<name>>]
SkipList(names) == [kind |-> "list", names |-> names]

\* use_analysis_file has not been called
NoPipeline ==
  /\ module_all = <<>>
  /\ skip_func = SkipNone
  /\ saveall = FALSE
  /\ save_path = <<>>
  /\ folders = [kind |-> "shorter", n |-> 0]
  /\ data0 = NoData
  /\ ppc = "idle"
  /\ functions_list = <<>>
  /\ warnings = <<>>
  /\ step = 0
  /\ data = NoData
  /\ data_saver = EmptyDict
  /\ funcs_modified = <<>>
  /\ plotted_against_list = <<>>
  /\ skip_plot_list = <<>>
  /\ applied = <<>>
  /\ data_out = NoData
  /\ raised = "none"
  /\ path = <<>>
  /\ iterator = 0
  /\ made = {}
  /\ saved = {}

NoMore ==
  /\ doc_string = <<>>
  /\ doc_tags = <<>>
  /\ icall = [fn |-> "none", nth |-> 0]
  /\ sent = <<>>
  /\ iexc = "none"
  /\ dirs = {}
  /\ original_path = <<>>
  /\ answer = ""
  /\ cpc = "idle"
  /\ cpath = <<>>
  /\ to_create = <<>>
  /\ self_path = <<>>
  /\ cexc = "none"

OthersIdle == NoDataFile /\ NoPipeline /\ NoMore

Dir == [files |-> files, index |-> index, pickle |-> pickle]

EmptyDirectory ==
  /\ files = EmptyDict
  /\ index = NoFile
  /\ pickle = NoFile
  /\ nruns = 0
  /\ trial_log = <<>>

\* no sweep has been called
NotCalled ==
  /\ kw_scan_params = EmptyDict
  /\ scan_param_order = <<>>
  /\ fixed_at_call = EmptyDict
  /\ fixed_params = EmptyDict
  /\ ntrials = 1
  /\ pc = "start"
  /\ total_scans = 0
  /\ iteration = 0
  /\ iterable_param_list = <<>>
  /\ pos = 0
  /\ count = 0
  /\ pending = "none"
  /\ outcome = "none"
  /\ events = <<>>
  /\ calls = <<>>
  /\ progress = <<>>

\* An experiment object (a subclass instance) and an empty destination
\* directory in which write_ekpy_data works. n_param_scan is modelled with
\* plot=False, its default.
Init ==
  /\ checks_raises \in BOOLEAN
  /\ has_run_function \in BOOLEAN
  /\ has_path \in BOOLEAN
  /\ terminate_overridden \in BOOLEAN
  /\ save_meta_data_pickle = TRUE
  /\ writer = "ok"
  /\ NotCalled
  /\ EmptyDirectory
  /\ OthersIdle

\* ------------------------------------------------------ n_param_scan
\* hasattr(self, 'terminate'): the class itself defines terminate()
HasTerminate == TRUE

\* the exception lines 257-267 raise before the try block, or "none"
Preflight(scan, order) ==
  CASE checks_raises -> "ChecksError"
    [] ~HasTerminate -> "NotImplementedError"
    [] ~has_run_function -> "AttributeError"
    [] ~has_path -> "AttributeError"
    [] Range(order) # DOMAIN scan -> "KeyError"
    [] OTHER -> "none"

\* len(x) raises on a scalar
HasLen(x) == x.kind # "scalar"

\* hasattr(params, '__getitem__') alone
ArrayLikeOrStr(x) == x.kind \in {"list", "str"}

\* hasattr(params, '__getitem__') and type(params) != str
ArrayLike(x) == x.kind \in {"list", "str"} /\ x.kind # "str"

\* lines 269-276: the sizes multiply, then every value must be array-like
SetupRaises(scan) ==
  \/ \E k \in DOMAIN scan : ~HasLen(scan[k])
  \/ \E k \in DOMAIN scan : ~ArrayLike(scan[k])

RECURSIVE SizesOf(_, _)
\* [len(kw_scan_params[x]) for x in kw_scan_params]
SizesOf(scan, ks) ==
  IF ks = {} THEN <<>>
  ELSE LET k == CHOOSE x \in ks : TRUE
       IN <<Len(scan[k].items)>> \o SizesOf(scan, ks \ {k})

TotalScans(scan, n) == Prod(SizesOf(scan, DOMAIN scan)) * n

\* the lists in the order of scan_param_order itself
ProductArgsForward(scan, order) ==
  [i \in DOMAIN order |-> scan[order[i]].items]

\* the lists handed to itertools.product: one per entry of order[::-1]
ProductArgs(scan, order) ==
  LET rev == Reverse(order) IN [i \in DOMAIN rev |-> scan[rev[i]].items]

IterableParamList(scan, order) == Product(ProductArgs(scan, order))

\* lines 254-282: the checks, the total and the list of combinations
Call ==
  /\ pc = "start"
  /\ \E scan \in {sp \in ScanParams : WellKeyed(sp)}, order \in Orders,
        fixed \in FixedParams, n \in 1 .. MaxNTrials :
       /\ kw_scan_params' = scan
       /\ scan_param_order' = order
       /\ fixed_at_call' = fixed
       /\ fixed_params' = fixed
       /\ ntrials' = n
       /\ IF Preflight(scan, order) # "none"
          THEN /\ pc' = "done"
               /\ outcome' = Preflight(scan, order)
               /\ events' = <<"raise">>
               /\ UNCHANGED <<total_scans, iterable_param_list, pending>>
          ELSE IF SetupRaises(scan)
          THEN /\ pc' = "finally"
               /\ pending' = "TypeError"
               /\ UNCHANGED <<total_scans, iterable_param_list, outcome,
                              events>>
          ELSE /\ pc' = "loop"
               /\ total_scans' = TotalScans(scan, n)
               /\ iterable_param_list' = IterableParamList(scan, order)
               /\ UNCHANGED <<pending, outcome, events>>
  /\ UNCHANGED <<config, iteration, pos, count, calls, progress, disk>>
  /\ UNCHANGED others

RECURSIVE UpdateEachKeepOld(_, _, _)
\* the same with the value already in d winning
UpdateEachKeepOld(d, keys, params) ==
  IF keys = <<>> THEN d
  ELSE UpdateEachKeepOld(Update([k \in {Head(keys)} |-> Head(params)], d),
                         Tail(keys), Tail(params))

RECURSIVE UpdateEach(_, _, _)
\* for i, key in enumerate(keys): d.update({key: params[i]})
UpdateEach(d, keys, params) ==
  IF keys = <<>> THEN d
  ELSE UpdateEach(Update(d, [k \in {Head(keys)} |-> Head(params)]),
                  Tail(keys), Tail(params))

\* lines 284-289: the next params; kwargs is fixed_params itself
NextParams ==
  /\ pc = "loop"
  /\ pos = 0 \/ count = ntrials
  /\ pos < Len(iterable_param_list)
  /\ pos' = pos + 1
  /\ count' = 0
  /\ fixed_params' = UpdateEach(fixed_params, Reverse(scan_param_order),
                                iterable_param_list[pos + 1])
  /\ UNCHANGED <<config, args, pc, total_scans, iteration,
                 iterable_param_list, pending, outcome, events, calls,
                 progress, disk>>
  /\ UNCHANGED others

\* the pattern of the class docstring: the run function returns its keyword
\* arguments as meta data, under a fixed base name
RunFunction(kwargs, df) ==
  RunReturns(<<"trial">>, [k \in DOMAIN kwargs |-> PyInt(kwargs[k])], df)

\* the entry of trial_log for a call of trial() given ro with result r
\* (name_fails is recorded when the naming step of line 330 was reached with
\* a result to save)
Logged(ro, name_fails, w, r) ==
  [ro |-> ro, name_fails |-> name_fails /\ ro.kind = "ok", writer |-> w, exc |-> r.exc, save_name |-> r.save_name,
   msg_file |-> r.msg_file, meta_data |-> r.meta_data,
   prompted |-> r.prompted]

\* where an exception raised inside the try block goes: except, then finally
OnExceptionReturn == "done"
OnException == "finally"

\* lines 290-299: one trial of the current params
RunTrial ==
  /\ pc = "loop"
  /\ pos >= 1
  /\ count < ntrials
  /\ iteration' = iteration + 1
  /\ progress' = Append(progress, <<iteration + 1, total_scans>>)
  /\ events' = Append(events, "run")
  /\ nruns' = nruns + 1
  /\ \E ro \in {RunRaises, RunFunction(fixed_params, nruns + 1)} :
       LET r == trial(ro, FALSE, <<>>, writer, save_meta_data_pickle, Dir) IN
       /\ calls' = Append(calls, [kwargs |-> fixed_params, pos |-> pos,
                                  exc |-> r.exc])
       /\ trial_log' = Append(trial_log, Logged(ro, FALSE, writer, r))
       /\ files' = r.files
       /\ index' = r.index
       /\ pickle' = r.pickle
       /\ IF r.exc = "none"
          THEN /\ count' = count + 1
               /\ UNCHANGED <<pc, pending>>
          ELSE /\ pc' = OnException
               /\ pending' = r.exc
               /\ UNCHANGED count
  /\ UNCHANGED <<config, args, fixed_params, total_scans,
                 iterable_param_list, pos, outcome, save_meta_data_pickle,
                 writer>>
  /\ UNCHANGED others

\* line 301: every params has had its trials
Return ==
  /\ pc = "loop"
  /\ pos = 0 \/ count = ntrials
  /\ pos = Len(iterable_param_list)
  /\ pc' = "finally"
  /\ UNCHANGED <<config, args, fixed_params, total_scans, iteration,
                 iterable_param_list, pos, count, pending, outcome, events,
                 calls, progress, disk>>
  /\ UNCHANGED others

\* lines 306-308 and 166-179: the finally block calls terminate(); the
\* placeholder of the base class raises
Finally ==
  /\ pc = "finally"
  /\ events' = Append(events, "terminate")
  /\ pending' = IF terminate_overridden THEN pending
                ELSE "NotImplementedError"
  /\ pc' = "exit"
  /\ UNCHANGED <<config, args, fixed_params, total_scans, iteration,
                 iterable_param_list, pos, count, outcome, calls, progress,
                 disk>>
  /\ UNCHANGED others

\* control goes back to the caller, with the pending exception if any
Exit ==
  /\ pc = "exit"
  /\ outcome' = IF pending = "none" THEN "returned" ELSE pending
  /\ events' = Append(events, IF pending = "none" THEN "return" ELSE "raise")
  /\ pc' = "done"
  /\ UNCHANGED <<config, args, fixed_params, total_scans, iteration,
                 iterable_param_list, pos, count, pending, calls, progress,
                 disk>>
  /\ UNCHANGED others

Next == Call \/ NextParams \/ RunTrial \/ Return \/ Finally \/ Exit

Spec == Init /\ [][Next]_vars

\* -------------------------------------------------- trial() on its own
\* what a run function handed to trial() directly can return
BaseNames == {<<"t">>, <<"u", "_", "v">>}
Word(w) == PyStr(TWord(<<w>>))
MetaDatas ==
  {[k \in {"p"} |-> PyInt(1)],
   [k \in {"p"} |-> PyStr(TPadded(7))],
   [k \in {"p"} |-> Word("x")],
   [k \in {"p", "q"} |-> PyInt(2)]}
RunOutputs(df) ==
  {RunRaises, RunReturnsNoFrame(<<"t">>, EmptyDict)}
    \cup {RunReturns(b, m, df) : b \in BaseNames, m \in MetaDatas}

\* the name entered when trial() prompts for one
PromptNames == {<<"manual", ".csv">>}

\* what the write step of lines 341-345 can do in a directory
Writers == {"ok", "fallback", "fails"}

\* a directory that trial() is called on directly, repeatedly
InitTrial ==
  /\ checks_raises = FALSE
  /\ has_run_function = TRUE
  /\ has_path = TRUE
  /\ terminate_overridden = TRUE
  /\ save_meta_data_pickle \in BOOLEAN
  /\ writer \in Writers
  /\ NotCalled
  /\ EmptyDirectory
  /\ OthersIdle

\* lines 311-361: one call trial(run_function, run_function_args, path)
TrialCall ==
  /\ nruns < MaxCalls
  /\ nruns' = nruns + 1
  /\ \E ro \in RunOutputs(nruns + 1), name_fails \in BOOLEAN,
        typed \in PromptNames :
       LET r == trial(ro, name_fails, typed, writer, save_meta_data_pickle,
                      Dir) IN
       /\ files' = r.files
       /\ index' = r.index
       /\ pickle' = r.pickle
       /\ trial_log' = Append(trial_log, Logged(ro, name_fails, writer, r))
  /\ UNCHANGED <<config, args, sweep, save_meta_data_pickle, writer>>
  /\ UNCHANGED others

NextTrial == TrialCall

SpecTrial == InitTrial /\ [][NextTrial]_vars

\* ------------------------------------------- the ekpy data file format
\* The text of a file is a sequence of lines and a line a sequence of tokens:
\* the digits of a number, ".0", a word, or one of the marks below. A text
\* contains another when the other's tokens occur in it side by side.
Heading == <<"ekpy_heading">>
HeadingComplete == <<"ekpy_heading", "_complete">>
Separator == ":::"
Comma == ","
Newline == "NL"
\* how DataFrame.to_csv writes a missing value in a frame of one column
QuotedEmpty == "\"\""

Digits == {ToString(n) : n \in 0 .. 9}

\* the tokens of a cell text
Tokens(text) ==
  CASE text.k = "int" -> <<ToString(text.v)>>
    [] text.k = "padded" -> <<"0", ToString(text.v)>>
    [] text.k = "float" -> <<ToString(text.v), ".0">>
    [] text.k = "empty" -> <<>>
    [] OTHER -> text.s

\* the cell text of tokens
TextOf(toks) ==
  CASE Len(toks) = 1 /\ toks[1] \in Digits ->
         TInt(CHOOSE n \in 0 .. 9 : ToString(n) = toks[1])
    [] Len(toks) = 2 /\ toks[1] = "0" /\ toks[2] \in Digits ->
         TPadded(CHOOSE n \in 0 .. 9 : ToString(n) = toks[2])
    [] Len(toks) = 2 /\ toks[1] \in Digits /\ toks[2] = ".0" ->
         TFloat(CHOOSE n \in 0 .. 9 : ToString(n) = toks[1])
    [] OTHER -> TWord(toks)

\* str(value), as '{}'.format(value) gives it
StrOf(val) ==
  CASE val.t = "int" -> TInt(val.v)
    [] val.t = "float" -> TFloat(val.v)
    [] val.t = "nan" -> TWord(<<"nan">>)
    [] OTHER -> val.x

\* needle in line
Contains(line, needle) ==
  \E i \in 1 .. Len(line) - Len(needle) + 1 :
    SubSeq(line, i, i + Len(needle) - 1) = needle

RECURSIVE Split(_, _)
\* line.split(sep)
Split(line, sep) ==
  IF \A i \in DOMAIN line : line[i] # sep THEN <<line>>
  ELSE LET at == CHOOSE i \in DOMAIN line :
                   line[i] = sep /\ \A j \in 1 .. i - 1 : line[j] # sep
       IN <<SubSeq(line, 1, at - 1)>>
            \o Split(SubSeq(line, at + 1, Len(line)), sep)

\* the lines of a text whose lines end in Newline
Lines(text) ==
  LET parts == Split(text, Newline) IN SubSeq(parts, 1, Len(parts) - 1)

RECURSIVE SetToSeq(_)
\* the elements of a set, one after the other
SetToSeq(set) ==
  IF set = {} THEN <<>>
  ELSE LET x == CHOOSE y \in set : TRUE IN <<x>> \o SetToSeq(set \ {x})

RECURSIVE JoinWith(_, _)
\* sep.join(parts)
JoinWith(parts, sep) ==
  IF parts = <<>> THEN <<>>
  ELSE IF Len(parts) = 1 THEN parts[1]
  ELSE parts[1] \o <<sep>> \o JoinWith(Tail(parts), sep)

\* data.to_csv(index=False) as text: the column names, then a line per row
ToCsvLines(frame) ==
  LET order == SetToSeq(frame.columns)
      cell(c, i) == IF ToCsvText(frame.col[c][i]) = TEmpty
                       /\ Cardinality(frame.columns) = 1
                    THEN <<QuotedEmpty>>
                    ELSE Tokens(ToCsvText(frame.col[c][i]))
  IN <<JoinWith([j \in DOMAIN order |-> <<order[j]>>], Comma)>>
       \o [i \in 1 .. frame.nrows |->
             JoinWith([j \in DOMAIN order |-> cell(order[j], i)], Comma)]

\* save.py 16-19: the header, a key:::value line for every key
HeaderText(meta_data) ==
  LET keys == SetToSeq(DOMAIN meta_data)
  IN Heading \o <<Newline>>
       \o Flatten([j \in DOMAIN keys |->
                     <<keys[j], Separator>>
                       \o Tokens(StrOf(meta_data[keys[j]])) \o <<Newline>>])
       \o HeadingComplete \o <<Newline>>

\* save.py 7-25: the lines write_ekpy_data(fname, data, meta_data) writes
write_ekpy_data(df, meta_data) ==
  Lines(HeaderText(meta_data)) \o ToCsvLines(df)

\* what a read gives: kind is "ok" or the exception raised; mode is "plain"
\* when the whole file was parsed as a table and "header" when the lines up
\* to the end of the heading were skipped
Raised(exc) ==
  [kind |-> exc, mode |-> "none", table |-> NoFile, meta_data |-> EmptyDict]
Got(mode, table, meta_data) ==
  [kind |-> "ok", mode |-> mode, table |-> table, meta_data |-> meta_data]

\* a field of a csv line as a cell text
CellOf(toks) ==
  IF toks = <<>> \/ toks = <<QuotedEmpty>> THEN TEmpty ELSE TextOf(toks)

\* pandas.read_csv of lines (blank lines skipped): the first line names the
\* columns. Lines that are not one name per column and one field per name
\* are "Irregular": what pandas makes of them is not modelled.
read_csv(lines) ==
  LET kept == SelectSeq(lines, LAMBDA l : l # <<>>)
      names == Split(kept[1], Comma)
      rows == [i \in 1 .. Len(kept) - 1 |-> Split(kept[i + 1], Comma)]
      at(c) == CHOOSE j \in DOMAIN names : names[j] = <<c>>
      cols == {names[j][1] : j \in DOMAIN names}
  IN IF kept = <<>> THEN Raised("EmptyDataError")
     ELSE IF \/ \E j \in DOMAIN names : Len(names[j]) # 1
             \/ \E j, k \in DOMAIN names : j # k /\ names[j] = names[k]
             \/ \E i \in DOMAIN rows : Len(rows[i]) # Len(names)
     THEN Raised("Irregular")
     ELSE Got("plain",
              Table(cols, Len(rows),
                    [c \in cols |->
                       ReadCsvColumn([i \in DOMAIN rows |->
                                        CellOf(rows[i][at(c)])])]),
              EmptyDict)

RECURSIVE ParseMetaData(_, _)
\* save.py 61-73, _parse_ekpy_meta_data: [ok, meta_data], ok false when a
\* line has no separator (spl[1] raises IndexError)
ParseMetaData(lines, acc) ==
  IF lines = <<>> THEN [ok |-> TRUE, meta_data |-> acc]
  ELSE LET line == Head(lines)
           spl == Split(line, Separator)
       IN IF Contains(line, HeadingComplete)
          THEN [ok |-> TRUE, meta_data |-> acc]
          ELSE IF Contains(line, Heading) \/ line = <<>>
          THEN ParseMetaData(Tail(lines), acc)
          ELSE IF Len(spl) < 2 THEN [ok |-> FALSE, meta_data |-> acc]
          ELSE ParseMetaData(Tail(lines),
                             Update(acc, [k \in {spl[1]} |->
                                            PyStr(TextOf(spl[2]))]))

\* the first line lacks the starting sentinel
NoHeadingAlways(lines) == FALSE
NoHeading(lines) == lines = <<>> \/ ~Contains(lines[1], Heading)

\* save.py 40-47: the index the loop ends with, counted from 0: that of the
\* last line with the ending sentinel, len(lines)+1 when the first line has
\* no starting sentinel or no line has the ending one
HeadingEnd(lines) ==
  LET ends == {i \in DOMAIN lines : Contains(lines[i], HeadingComplete)}
  IN IF NoHeading(lines) \/ ends = {} THEN Len(lines) + 1
     ELSE (CHOOSE i \in ends : \A j \in ends : j <= i) - 1

\* save.py 27-59: read_ekpy_data(file, return_meta_data)
read_ekpy_data(lines, return_meta) ==
  LET end == HeadingEnd(lines)
      rows == read_csv(SubSeq(lines, end + 2, Len(lines)))
      parsed == ParseMetaData(lines, EmptyDict)
  IN IF end > Len(lines)
     THEN IF return_meta THEN Raised("ValueError") ELSE read_csv(lines)
     ELSE IF rows.kind # "ok" THEN rows
     ELSE IF ~return_meta THEN Got("header", rows.table, EmptyDict)
     ELSE IF ~parsed.ok THEN Raised("IndexError")
     ELSE Got("header", rows.table, parsed.meta_data)

\* ----------------------------------------- a data file written and read
\* the values a meta data key or an object column can hold
FileValues ==
  {PyInt(1), PyFloat(2), PyNaN, Word("x"), PyStr(TPadded(7)),
   PyStr(TWord(<<>>)), PyStr(TWord(<<"a", Separator, "b">>)),
   PyStr(TWord(<<"a", Newline, "b">>)), PyStr(TWord(Heading)),
   PyStr(TWord(HeadingComplete))}

FileMetaDatas == UNION {[ks -> FileValues] : ks \in SUBSET {"p", "q"}}

\* a DataFrame of one column "x"
OneColumn(cells) == Table({"x"}, Len(cells), [c \in {"x"} |-> cells])
\* a DataFrame of the columns "x" and "y"
TwoColumns(xs, ys) ==
  Table({"x", "y"}, Len(xs), [c \in {"x", "y"} |-> IF c = "x" THEN xs ELSE ys])

FileFrames ==
  {OneColumn(<<PyInt(1), PyInt(2)>>),
   OneColumn(<<PyFloat(1), PyNaN>>),
   OneColumn(<<PyStr(TPadded(7))>>),
   OneColumn(<<Word("x"), PyStr(TWord(HeadingComplete))>>),
   TwoColumns(<<>>, <<>>),
   TwoColumns(<<PyInt(1), PyInt(2)>>, <<Word("u"), Word("v")>>),
   TwoColumns(<<PyFloat(1), PyNaN>>, <<Word("u"), PyStr(TWord(<<>>))>>)}

\* files of some other origin: an empty file, a heading that is never
\* completed, an ekpy file behind a blank line, a table whose first column
\* name holds the sentinel's text
OtherFiles ==
  {<<>>,
   <<Heading, <<"p", Separator, "1">>, <<"x">>, <<"1">>, <<"2">> >>,
   << <<>> >> \o write_ekpy_data(OneColumn(<<PyInt(1)>>), [k \in {"p"} |-> PyInt(1)]),
   << <<"my", "ekpy_heading">>, HeadingComplete, <<"3">> >>}

\* no file yet; the experiment and its directory play no part
InitFile ==
  /\ checks_raises = FALSE
  /\ has_run_function = TRUE
  /\ has_path = TRUE
  /\ terminate_overridden = TRUE
  /\ save_meta_data_pickle = TRUE
  /\ writer = "ok"
  /\ NotCalled
  /\ EmptyDirectory
  /\ OthersIdle

\* write_ekpy_data(fname, data, meta_data)
WriteEkpyData ==
  /\ origin = "none"
  /\ \E df \in FileFrames, meta_data \in FileMetaDatas :
       /\ file_lines' = write_ekpy_data(df, meta_data)
       /\ given_data' = df
       /\ given_meta' = meta_data
  /\ origin' = "ekpy"
  /\ UNCHANGED <<config, args, sweep, disk, return_meta_data, got>>
  /\ UNCHANGED <<pipe_args, pipe, saver, more>>

\* data.to_csv(fname, index=False), the fallback of trial()
WritePlain ==
  /\ origin = "none"
  /\ \E df \in FileFrames :
       /\ file_lines' = ToCsvLines(df)
       /\ given_data' = df
  /\ origin' = "plain"
  /\ UNCHANGED <<config, args, sweep, disk, given_meta, return_meta_data, got>>
  /\ UNCHANGED <<pipe_args, pipe, saver, more>>

\* the file comes from somewhere else
WriteOther ==
  /\ origin = "none"
  /\ file_lines' \in OtherFiles
  /\ origin' = "other"
  /\ UNCHANGED <<config, args, sweep, disk, given_data, given_meta,
                 return_meta_data, got>>
  /\ UNCHANGED <<pipe_args, pipe, saver, more>>

\* read_ekpy_data(file, return_meta_data)
ReadEkpyData ==
  /\ origin # "none"
  /\ got = NotRead
  /\ \E r \in BOOLEAN :
       /\ return_meta_data' = r
       /\ got' = read_ekpy_data(file_lines, r)
  /\ UNCHANGED <<config, args, sweep, disk, file_lines, origin, given_data,
                 given_meta>>
  /\ UNCHANGED <<pipe_args, pipe, saver, more>>

NextFile == WriteEkpyData \/ WritePlain \/ WriteOther \/ ReadEkpyData

SpecFile == InitFile /\ [][NextFile]_vars

\* ------------------------------------------------- use_analysis_file
\* longest module.__all__
MaxFuncs == 3
\* the cap of the search for a free snapshot folder
MaxAttempts == 1000

\* the transforms a module can list
Transforms == {"scale_x", "add_y", "add_z", "show", "bare"}

\* data with the key k set to v: a new key comes last
Put(d, k, v) ==
  DataOf(IF \E i \in DOMAIN d.keys : d.keys[i] = k THEN d.keys
         ELSE Append(d.keys, k),
         Update(d.val, [f \in {k} |-> v]))

\* data.apply(func, pass_defn): what each transform makes of a data object;
\* "show" returns None
Apply(name, d) ==
  CASE name = "scale_x" -> Put(d, "x", 2 * d.val["x"])
    [] name = "add_y" -> Put(d, "y", d.val["x"] + 1)
    [] name = "add_z" -> Put(d, "z", d.val["x"] + 2)
    [] name = "bare" -> Put(d, "w", 0)
    [] OTHER -> NoData

\* a text that may be None
NoText == [none |-> TRUE, text |-> <<>>]
Text(toks) == [none |-> FALSE, text |-> toks]

\* getdoc(func), its ends cleaned; "bare" has no docstring
GetDoc(name) ==
  CASE name = "scale_x" -> Text(<<"MODIFIES:", " ", "x">>)
    [] name = "add_y" ->
         Text(<<"adds", "NL", "PLOT_AGAINST:", " ", "x", "NL", "MODIFIES:", " ", "y">>)
    [] name = "add_z" ->
         Text(<<"SKIP_PLOT", "NL", "MODIFIES:", "z">>)
    [] name = "show" -> Text(<<"plots">>)
    [] OTHER -> NoText

\* doc_string.find(tag): the place of the tag, 0 when it is not there
Find(doc, tag) ==
  IF \A i \in DOMAIN doc : doc[i] # tag THEN 0
  ELSE CHOOSE i \in DOMAIN doc : doc[i] = tag /\ \A j \in 1 .. i - 1 : doc[j] # tag

\* str.strip()
StripNothing(toks) == toks
Strip(toks) ==
  LET inked == {i \in DOMAIN toks : toks[i] \notin {" ", "NL"}}
  IN IF inked = {} THEN <<>>
     ELSE SubSeq(toks, CHOOSE i \in inked : \A j \in inked : i <= j,
                 CHOOSE i \in inked : \A j \in inked : j <= i)

\* lines 113-141: get_function_doc_append(doc_string), doc_string not None
get_function_doc_append(doc) ==
  LET m == Find(doc, "MODIFIES:")
      q == Find(doc, "PLOT_AGAINST:")
      rest == SubSeq(doc, q + 1, Len(doc))
      nl == Find(rest, "NL")
  IN [func_name_appended |->
        IF m # 0 THEN Text(Strip(SubSeq(doc, m + 1, Len(doc)))) ELSE NoText,
      plotted_against |->
        IF q = 0 THEN NoText
        ELSE IF nl = 0 THEN Text(<<>>)
        ELSE Text(Strip(SubSeq(rest, 1, nl - 1))),
      skip_plot |-> Find(doc, "SKIP_PLOT") # 0]

\* line 42, `skip_func is not list`: skip_func is a str or a list, never the
\* type list itself
IsNotList(sf) == TRUE

\* lines 42-45: what the loop of line 46 goes through
SkipItems(sf) ==
  IF IsNotList(sf) THEN <<sf>>
  ELSE [i \in DOMAIN sf.names |-> SkipName(sf.names[i])]

\* an element of functions_list equals the item
IsItem(name, item) == item.kind = "str" /\ item.names = <<name>>

RECURSIVE RemoveEach(_, _, _)
\* lines 46-50: functions_list.remove(func) for each item, a warning printed
\* for an item that is not in the list: [list, warnings]
RemoveEach(list, items, warned) ==
  IF items = <<>> THEN [list |-> list, warnings |-> warned]
  ELSE LET hits == {i \in DOMAIN list : IsItem(list[i], Head(items))}
           first == CHOOSE i \in hits : \A j \in hits : i <= j
       IN IF hits = {}
          THEN RemoveEach(list, Tail(items), Append(warned, Head(items)))
          ELSE RemoveEach(SubSeq(list, 1, first - 1)
                            \o SubSeq(list, first + 1, Len(list)),
                          Tail(items), warned)

\* the inputs
ModuleLists ==
  {l \in UNION {[1 .. n -> Transforms] : n \in 0 .. MaxFuncs} :
     \A i, j \in DOMAIN l : l[i] = l[j] => i = j}
SkipFuncs ==
  {SkipNone, SkipName("scale_x"), SkipName("typo"),
   SkipList(<<"scale_x">>), SkipList(<<"show", "typo">>)}
Datas ==
  {DataOf(ks, [f \in {"t", "x"} |-> IF f = "t" THEN 5 ELSE 1]) :
     ks \in {<<"t", "x">>, <<"x", "t">>}}
SavePaths == {NoText, Text(<<"out">>)}

\* The snapshot folders already there: every data_saver<digits> whose digits
\* are fewer than n, or every data_saver<digits> there is. The last name
\* the search can try has 1 + 90 + 2 * 900 + 3 digits.
Shorter(n) == [kind |-> "shorter", n |-> n]
Every == [kind |-> "every", n |-> 0]
Folders == {Shorter(1), Shorter(2), Shorter(3)}
DeepFolders == {Shorter(1 + 90 + 2 * 900 + 3), Every}

\* use_analysis_file with verbose=False, its default, on a Data object

\* lines 39-57: the call, up to the loop. The long searches for a folder are
\* gone through for the empty module only, and the short ones without
\* skip_func: the search reads nothing of what the transforms did.
CallAnalysis ==
  /\ ppc = "idle"
  /\ \E m \in ModuleLists, sf \in SkipFuncs, d \in Datas, sa \in BOOLEAN,
        sp \in SavePaths, fo \in Folders \cup DeepFolders :
       /\ fo \in DeepFolders => sa /\ m = <<>> /\ sf = SkipNone
       /\ ~sa => sp = NoText /\ fo = Shorter(1)
       /\ fo # Shorter(1) => sf = SkipNone
       /\ module_all' = m
       /\ skip_func' = sf
       /\ data0' = d
       /\ saveall' = sa
       /\ save_path' = sp.text
       /\ folders' = fo
       /\ LET r == IF sf.kind = "none"
                   THEN [list |-> m, warnings |-> <<>>]
                   ELSE RemoveEach(m, SkipItems(sf), <<>>)
          IN /\ functions_list' = r.list
             /\ warnings' = r.warnings
       /\ data' = d
       /\ data_saver' = [n \in {0} |-> d]
  /\ funcs_modified' = <<Text(<<"original">>)>>
  /\ plotted_against_list' = <<NoText>>
  /\ skip_plot_list' = <<FALSE>>
  /\ step' = 0
  /\ ppc' = "loop"
  /\ UNCHANGED <<config, args, sweep, disk, io, more,
                 applied, data_out, raised,
                 saver>>

\* line 64: the transform returned nothing
IsNoneNever(result) == FALSE
IsNone(result) == result.none

\* line 73: the data the next transform gets
NextDataKept(current, result) == current
NextData(current, result) == result

\* lines 58-73: one turn of the loop
ApplyTransform ==
  /\ ppc = "loop"
  /\ step < Len(functions_list)
  /\ LET name == functions_list[step + 1]
         check_if_func_nonetype == Apply(name, data)
         doc == GetDoc(name)
         tags == get_function_doc_append(doc.text)
     IN /\ applied' = Append(applied, [name |-> name, input |-> data,
                                       result |-> check_if_func_nonetype])
        /\ IF IsNone(check_if_func_nonetype)
           THEN /\ step' = step + 1
                /\ UNCHANGED <<ppc, data, data_saver, funcs_modified,
                               plotted_against_list, skip_plot_list, raised>>
           ELSE IF doc.none
           THEN /\ ppc' = "done"
                /\ raised' = "AttributeError"
                /\ UNCHANGED <<step, data, data_saver, funcs_modified,
                               plotted_against_list, skip_plot_list>>
           ELSE /\ funcs_modified' = Append(funcs_modified,
                                            tags.func_name_appended)
                /\ skip_plot_list' = Append(skip_plot_list, tags.skip_plot)
                /\ plotted_against_list' = Append(plotted_against_list,
                                                  tags.plotted_against)
                /\ data_saver' = Update(data_saver,
                                        [n \in {step + 1} |->
                                           check_if_func_nonetype])
                /\ data' = NextData(data, check_if_func_nonetype)
                /\ step' = step + 1
                /\ UNCHANGED <<ppc, raised>>
  /\ UNCHANGED <<config, args, sweep, disk, io, more,
                 pipe_args, functions_list,
                 warnings, data_out, saver>>

\* lines 74-81: the last data key of the last data, put into a copy of the
\* original
MergeLast(original, last) ==
  Put(original, last.keys[Len(last.keys)], last.val[last.keys[Len(last.keys)]])

\* lines 74-92: after the loop
Merge ==
  /\ ppc = "loop"
  /\ step = Len(functions_list)
  /\ data_out' = MergeLast(data_saver[0], data)
  /\ IF saveall
     THEN /\ path' = (IF save_path = <<>> THEN <<"./">> ELSE save_path)
                       \o <<"/data_saver", "0">>
          /\ iterator' = 1
          /\ ppc' = "search"
     ELSE /\ ppc' = "done"
          /\ UNCHANGED <<path, iterator>>
  /\ UNCHANGED <<config, args, sweep, disk, io, more,
                 pipe_args, functions_list,
                 warnings, step, data, data_saver, funcs_modified,
                 plotted_against_list, skip_plot_list, applied, raised,
                 made, saved>>

RECURSIVE Str(_)
\* str(n), a character at a time
Str(n) ==
  IF n < 10 THEN <<ToString(n)>>
  ELSE Str(n \div 10) \o <<ToString(n % 10)>>

\* the characters behind data_saver
Number(p) == SubSeq(p, 3, Len(p))

\* os.path.exists(path)
Exists(p) ==
  \/ p \in made
  \/ folders.kind = "every"
  \/ folders.kind = "shorter" /\ Len(Number(p)) < folders.n

\* line 94
TooManyOneLater(it) == it > MaxAttempts + 1
TooMany(it) == it > MaxAttempts

\* lines 93-99: the path exists, the next name is tried
TryNext ==
  /\ ppc = "search"
  /\ Exists(path)
  /\ ~TooMany(iterator)
  /\ path' = SubSeq(path, 1, Len(path) - 1) \o Str(iterator)
  /\ iterator' = iterator + 1
  /\ UNCHANGED <<config, args, sweep, disk, io, more,
                 pipe_args, pipe, made, saved>>

\* lines 94-95: the path exists and the cap is passed
GiveUp ==
  /\ ppc = "search"
  /\ Exists(path)
  /\ TooMany(iterator)
  /\ raised' = "ValueError"
  /\ ppc' = "done"
  /\ UNCHANGED <<config, args, sweep, disk, io, more,
                 pipe_args, functions_list,
                 warnings, step, data, data_saver, funcs_modified,
                 plotted_against_list, skip_plot_list, applied, data_out,
                 saver>>

\* lines 100-106: the folder is made and every snapshot written
SaveAll ==
  /\ ppc = "search"
  /\ ~Exists(path)
  /\ made' = made \cup {path}
  /\ saved' = {path \o <<"/saver.ekpdat">>}
                \cup {path \o <<"\\", "data", ToString(n), ".ekpdat">> :
                        n \in DOMAIN data_saver}
  /\ ppc' = "done"
  /\ UNCHANGED <<config, args, sweep, disk, io, more,
                 pipe_args, functions_list,
                 warnings, step, data, data_saver, funcs_modified,
                 plotted_against_list, skip_plot_list, applied, data_out,
                 raised, path, iterator>>

\* the steps of a call that was made
RunOn == ApplyTransform \/ Merge \/ TryNext \/ GiveUp \/ SaveAll

NextPipe == CallAnalysis \/ RunOn

SpecPipe == InitFile /\ [][NextPipe]_vars

\* once called, use_analysis_file runs on: no step of it waits for anything
SpecPipeFair == SpecPipe /\ WF_vars(RunOn)

\* ------------------------------------------ get_function_doc_append alone
\* longest docstring, in tokens
MaxDoc == 5

\* what a docstring is made of: the tags, words, the blank and the line break
DocTokens == {"MODIFIES:", "PLOT_AGAINST:", "SKIP_PLOT", "x", "t", " ", "NL"}
DocStrings == UNION {[1 .. n -> DocTokens] : n \in 0 .. MaxDoc}

\* lines 113-141: one call get_function_doc_append(doc_string)
DocAppend ==
  /\ doc_tags = <<>>
  /\ \E d \in DocStrings :
       /\ doc_string' = d
       /\ doc_tags' = <<get_function_doc_append(d)>>
  /\ UNCHANGED <<config, args, sweep, disk, io, pipe_args, pipe, saver, instr,
                 cp>>

NextDoc == DocAppend

SpecDoc == InitFile /\ [][NextDoc]_vars

\* ------------------------------------------------- the Tektronix 3252
\* most calls made on one pulse generator
MaxPulseGenCalls == 2

\* channel arguments: the ints 1 and 2, and the str '1'
ChannelArgs ==
  {[int |-> TRUE, text |-> "1"], [int |-> TRUE, text |-> "2"],
   [int |-> FALSE, text |-> "1"]}

\* what lines 64-66, 88-90 and 110-112 make of the setting: the number with
\* its suffix in scientific notation, or KeyError for an unknown suffix
Settings == {[ok |-> TRUE, text |-> "0e0"], [ok |-> TRUE, text |-> "5e-3"],
             [ok |-> FALSE, text |-> ""]}

\* pulse_gen.write(command) on what was sent so far
Written(log, exc) == [sent |-> log, exc |-> exc]

\* lines 31-49: stop_pulse_gen(pulse_gen, channel, both)
stop_pulse_gen(log, channel, both) ==
  IF ~channel.int THEN Written(log, "TypeError")
  ELSE IF both
  THEN Written(log \o <<<<"OUTPut", "1", ":STATe OFF">>,
                        <<"OUTPut", "2", ":STATe OFF">>>>, "none")
  ELSE Written(Append(log, <<"OUTPut", channel.text, ":STATe OFF">>), "none")

\* lines 68-72, 92-96, 114-118: `if not both:`
BothTest(both) == ~both

\* the level or width written to both sources or to the one of the channel
SourceWrites(log, what, setting, channel, both) ==
  IF BothTest(both)
  THEN log \o <<<<"SOURce", "1", what, setting>>,
                 <<"SOURce", "2", what, setting>>>>
  ELSE Append(log, <<"SOURce", channel.text, what, setting>>)

\* lines 51-73: set_low_voltage(pulse_gen, low_v, channel, both)
set_low_voltage(log, low_v, channel, both) ==
  LET stopped == stop_pulse_gen(log, channel, both)
  IN IF stopped.exc # "none" THEN stopped
     ELSE IF ~low_v.ok THEN Written(stopped.sent, "KeyError")
     ELSE Written(SourceWrites(stopped.sent, ":VOLTage:LEVel:IMMediate:low",
                               low_v.text, channel, both), "none")

\* lines 75-97: set_high_voltage(pulse_gen, high_v, channel, both)
set_high_voltage(log, high_v, channel, both) ==
  LET stopped == stop_pulse_gen(log, channel, both)
  IN IF stopped.exc # "none" THEN stopped
     ELSE IF ~high_v.ok THEN Written(stopped.sent, "KeyError")
     ELSE Written(SourceWrites(stopped.sent, ":VOLTage:LEVel:IMMediate:high",
                               high_v.text, channel, both), "none")

\* lines 99-120: set_pulsewidth(pulse_gen, pw, channel, both)
set_pulsewidth(log, pw, channel, both) ==
  IF ~pw.ok THEN Written(log, "KeyError")
  ELSE Written(SourceWrites(log, ":PULSe:WIDTh", pw.text, channel, both),
               "none")

\* one call of one of the three, on the same generator as the earlier ones
PulseGenCall(fn, r, setting, channel, both) ==
  /\ icall.nth < MaxPulseGenCalls
  /\ icall' = [fn |-> fn, nth |-> icall.nth + 1, setting |-> setting,
               channel |-> channel, both |-> both]
  /\ sent' = r.sent
  /\ iexc' = r.exc
  /\ UNCHANGED <<config, args, sweep, disk, io, pipe_args, pipe, saver,
                 cp, doc_string, doc_tags>>

SetLowVoltage ==
  \E v \in Settings, channel \in ChannelArgs, both \in BOOLEAN :
    PulseGenCall("set_low_voltage", set_low_voltage(sent, v, channel, both),
                 v, channel, both)

SetHighVoltage ==
  \E v \in Settings, channel \in ChannelArgs, both \in BOOLEAN :
    PulseGenCall("set_high_voltage", set_high_voltage(sent, v, channel, both),
                 v, channel, both)

SetPulsewidth ==
  \E pw \in Settings, channel \in ChannelArgs, both \in BOOLEAN :
    PulseGenCall("set_pulsewidth", set_pulsewidth(sent, pw, channel, both),
                 pw, channel, both)

NextPulseGen == SetLowVoltage \/ SetHighVoltage \/ SetPulsewidth

SpecPulseGen == InitFile /\ [][NextPulseGen]_vars

\* ------------------------------------------------- the Keysight DSOX3024a
RECURSIVE BinaryDigits(_)
\* the binary digits of n, the highest first
BinaryDigits(n) ==
  IF n < 2 THEN <<ToString(n)>>
  ELSE Append(BinaryDigits(n \div 2), ToString(n % 2))

\* bin(status)
Bin(status) == <<"0", "b">> \o BinaryDigits(status)

\* line 196, bin(status)[7]: the eighth character, IndexError if there is none
BinAt7(status) ==
  IF Len(Bin(status)) < 8 THEN "IndexError" ELSE Bin(status)[8]

\* the timeout arguments, 100 the default, and the status bytes the scope
\* can answer *STB? with (32 is the event summary bit, set when the
\* operation is complete)
Timeouts == {0, 5, 8, 10, 11, 100}
StatusBytes == {0, 1, 32, 33, 66, 96, 160}

\* scope.write(command), scope.query(command)
ScopeWrite(log, command) == Append(log, <<command>>)

\* lines 188-190: wait_for_acq_complete(scope, timeout) up to the loop
WaitForAcqComplete ==
  /\ icall.nth = 0
  /\ \E timeout \in Timeouts :
       icall' = [fn |-> "wait_for_acq_complete", nth |-> 1,
                 timeout |-> timeout, loop_count |-> timeout, polls |-> 0,
                 status |-> 0, timed_out |-> FALSE, pc |-> "loop"]
  /\ sent' = ScopeWrite(ScopeWrite(sent, "*CLS"), "*OPC")
  /\ UNCHANGED <<config, args, sweep, disk, io, pipe_args, pipe, saver,
                 cp, doc_string, doc_tags, iexc>>

\* lines 192-194: the loop is left with "Timed Out"
TimedOut ==
  /\ icall.fn = "wait_for_acq_complete"
  /\ icall.pc = "loop"
  /\ icall.loop_count > 10
  /\ icall' = [icall EXCEPT !.timed_out = TRUE, !.pc = "done"]
  /\ UNCHANGED <<config, args, sweep, disk, io, pipe_args, pipe, saver,
                 cp, doc_string, doc_tags, sent, iexc>>

\* lines 195-200: the status byte is asked for and looked at. `binary is '1'`
\* is taken as equality: the one-character strings are shared objects.
Poll ==
  /\ icall.fn = "wait_for_acq_complete"
  /\ icall.pc = "loop"
  /\ ~(icall.loop_count > 10)
  /\ sent' = ScopeWrite(sent, "*STB?")
  /\ \E status \in StatusBytes :
       LET binary == BinAt7(status)
           polled == [icall EXCEPT !.status = status, !.polls = @ + 1]
       IN IF binary = "IndexError"
          THEN /\ icall' = [polled EXCEPT !.pc = "done"]
               /\ iexc' = "IndexError"
          ELSE /\ icall' = IF binary = "1"
                           THEN [polled EXCEPT !.pc = "done"]
                           ELSE [polled EXCEPT !.loop_count = @ + 1]
               /\ iexc' = iexc
  /\ UNCHANGED <<config, args, sweep, disk, io, pipe_args, pipe, saver,
                 cp, doc_string, doc_tags>>

NextWait == WaitForAcqComplete \/ TimedOut \/ Poll

SpecWait == InitFile /\ [][NextWait]_vars

\* what the scope answers :WAVeform:PREamble? with: FORMAT 0 = BYTE,
\* 1 = WORD, 4 = ASCII; TYPE 0 = NORMAL, 1 = PEAK DETECT, 2 = AVERAGE; the
\* other fields are whole numbers here
Preambles ==
  [format : {0, 1, 4}, type : {0, 1, 2}, points : {0, 1, 2},
   x_increment : {2}, x_origin : {1}, y_increment : {1, 3}, y_origin : {5}]

\* what the scope answers WAVeform:DATA? with: as many values as points
WaveformData(preamble) == [i \in 1 .. preamble.points |-> 10 * i]

\* scope.query_binary_values("WAVeform:DATA?", datatype, is_big_endian) and
\* scope.query_ascii_values("WAVeform:DATA?")
BinaryQuery(datatype, is_big_endian) ==
  <<"WAVeform:DATA?", datatype, IF is_big_endian THEN "big" ELSE "little">>
AsciiQuery == <<"WAVeform:DATA?", "ascii">>

\* lines 335-344: the data queries made, in order; the key read is "type"
Selector(preamble) == preamble.type

DataQueries(preamble, is_big_endian, is_unsigned) ==
  (IF Selector(preamble) = 0 /\ ~is_unsigned
   THEN <<BinaryQuery("b", is_big_endian)>> ELSE <<>>)
  \o (IF Selector(preamble) = 0 /\ is_unsigned
      THEN <<BinaryQuery("B", is_big_endian)>> ELSE <<>>)
  \o (IF Selector(preamble) = 1 /\ is_unsigned
      THEN <<BinaryQuery("h", is_big_endian)>> ELSE <<>>)
  \o (IF Selector(preamble) = 1 /\ is_unsigned
      THEN <<BinaryQuery("H", is_big_endian)>> ELSE <<>>)
  \o (IF Selector(preamble) = 4 THEN <<AsciiQuery>> ELSE <<>>)

\* lines 313-351: query_wf(scope, byte_order, unsigned): what is sent, the
\* exception and the value returned; `data` is unbound at line 349 when no
\* query assigned it
query_wf(log, preamble, byte_order, unsigned) ==
  LET is_big_endian == byte_order = "MSBF"
      is_unsigned == unsigned = "ON"
      queries == DataQueries(preamble, is_big_endian, is_unsigned)
      asked == Append(log, <<":WAVeform:PREamble?">>) \o queries
      values == WaveformData(preamble)
  IN IF queries = <<>>
     THEN [sent |-> asked, exc |-> "UnboundLocalError",
           time |-> <<>>, wfm |-> <<>>]
     ELSE [sent |-> asked, exc |-> "none",
           time |-> [t \in 1 .. preamble.points |->
                       (t - 1) * preamble.x_increment + preamble.x_origin],
           wfm |-> [i \in DOMAIN values |->
                      values[i] * preamble.y_increment + preamble.y_origin]]

QueryWf ==
  /\ icall.nth = 0
  /\ \E preamble \in Preambles, byte_order \in {"MSBF", "LSBF"},
        unsigned \in {"OFF", "ON"} :
       LET r == query_wf(sent, preamble, byte_order, unsigned)
       IN /\ icall' = [fn |-> "query_wf", nth |-> 1, preamble |-> preamble,
                       byte_order |-> byte_order, unsigned |-> unsigned,
                       time |-> r.time, wfm |-> r.wfm]
          /\ sent' = r.sent
          /\ iexc' = r.exc
  /\ UNCHANGED <<config, args, sweep, disk, io, pipe_args, pipe, saver,
                 cp, doc_string, doc_tags>>

NextQueryWf == QueryWf

SpecQueryWf == InitFile /\ [][NextQueryWf]_vars

RECURSIVE Format(_, _)
\* template.format(*values), the template in pieces with "{}" for a field:
\* IndexError when there are more fields than values
Format(template, values) ==
  IF template = <<>> THEN [ok |-> TRUE, text |-> <<>>]
  ELSE IF Head(template) # "{}"
  THEN LET rest == Format(Tail(template), values)
       IN [ok |-> rest.ok, text |-> <<Head(template)>> \o rest.text]
  ELSE IF values = <<>> THEN [ok |-> FALSE, text |-> <<>>]
  ELSE LET rest == Format(Tail(template), Tail(values))
       IN [ok |-> rest.ok, text |-> <<Head(values)>> \o rest.text]

\* lines 130-131: the values handed to the second format
ScaleValues(channel, vertical_scale) == <<vertical_scale>>

\* lines 120-131: configure_scale(scope, channel, time_scale, vertical_scale)
configure_scale(log, channel, time_scale, vertical_scale) ==
  LET first == Format(<<"TIMebase:SCALe ", "{}">>, <<time_scale>>)
      second == Format(<<"CHANnel", "{}", ":SCALe ", "{}">>,
                       ScaleValues(channel, vertical_scale))
  IN IF ~first.ok THEN [sent |-> log, exc |-> "IndexError"]
     ELSE IF ~second.ok
     THEN [sent |-> Append(log, first.text), exc |-> "IndexError"]
     ELSE [sent |-> Append(Append(log, first.text), second.text),
           exc |-> "none"]

ScopeChannels == {"1", "2", "3", "4"}
TimeScales == {"0.0001", "0.001", "0.01", "1e-6", "5"}
VerticalScales == {"5", "1", "0.5", "0.1", "0.05", "10"}

ConfigureScale ==
  /\ icall.nth = 0
  /\ \E channel \in ScopeChannels, time_scale \in TimeScales,
        vertical_scale \in VerticalScales :
       LET r == configure_scale(sent, channel, time_scale, vertical_scale)
       IN /\ icall' = [fn |-> "configure_scale", nth |-> 1,
                       channel |-> channel, time_scale |-> time_scale,
                       vertical_scale |-> vertical_scale]
          /\ sent' = r.sent
          /\ iexc' = r.exc
  /\ UNCHANGED <<config, args, sweep, disk, io, pipe_args, pipe, saver,
                 cp, doc_string, doc_tags>>

NextScale == ConfigureScale

SpecScale == InitFile /\ [][NextScale]_vars

\* ------------------------------------------------- experiment.config_path
\* longest path argument, in pieces: a name or the delimiter
MaxPath == 5

\* directory_delimiter, at its default
Delimiter == "/"

\* the path arguments
PathTexts == UNION {[1 .. n -> {"a", "b", Delimiter}] : n \in 0 .. MaxPath}

\* the root, and the working directory that relative paths start from
Root == <<>>
WorkingDir == <<<<"home">>>>

\* the directory a path text names: its non-empty pieces, from the root if
\* it starts with the delimiter, from the working directory otherwise
Resolve(text) ==
  (IF text # <<>> /\ text[1] = Delimiter THEN Root ELSE WorkingDir)
    \o SelectSeq(Split(text, Delimiter), LAMBDA piece : piece # <<>>)

\* os.listdir(path) returns: the path is not empty and names a directory
Listable(fs, text) == text # <<>> /\ Resolve(text) \in fs

\* the file systems config_path is called in
FileSystems ==
  {{Root, WorkingDir} \cup extra :
     extra \in {{}, {<<<<"a">>>>}, {<<<<"a">>>>, <<<<"a">>, <<"b">>>>},
                {WorkingDir \o <<<<"a">>>>},
                {WorkingDir \o <<<<"a">>>>,
                 WorkingDir \o <<<<"a">>, <<"b">>>>}}}

\* yn.lower()
Lower(text) == IF text = "Y" THEN "y" ELSE IF text = "N" THEN "n" ELSE text

\* lines 125-137: config_path(path) up to the search
ConfigPath ==
  /\ cpc = "idle"
  /\ \E text \in PathTexts, fs \in FileSystems, typed \in {"y", "Y", "n"} :
       /\ original_path' = text
       /\ dirs' = fs
       /\ answer' = typed
       /\ cpath' = text
       /\ IF text = <<>>
          THEN cexc' = "IndexError" /\ cpc' = "done" /\ self_path' = self_path
          ELSE IF text[Len(text)] # Delimiter
          THEN cexc' = "ValueError" /\ cpc' = "done" /\ self_path' = self_path
          ELSE IF ~Listable(fs, text) /\ Lower(typed) = "y"
          THEN cexc' = cexc /\ cpc' = "search" /\ self_path' = self_path
          ELSE cexc' = cexc /\ cpc' = "done" /\ self_path' = <<text>>
  /\ UNCHANGED <<config, args, sweep, disk, io, pipe_args, pipe, saver,
                 doc_string, doc_tags, instr, to_create>>

RECURSIVE Rejoined(_)
\* lines 147-148: the pieces put together again, each with '/' behind it
Rejoined(pieces) ==
  IF pieces = <<>> THEN <<>>
  ELSE Head(pieces) \o <<"/">> \o Rejoined(Tail(pieces))

\* lines 141-148: one turn of the search for a directory that is there
SearchUp ==
  /\ cpc = "search"
  /\ LET path_spl == Split(cpath, Delimiter)
     IN IF Listable(dirs, cpath)
        THEN /\ cpc' = "create"
             /\ to_create' = Reverse(to_create)
             /\ UNCHANGED <<cpath, cexc>>
        ELSE IF Len(path_spl) < 2
        THEN /\ cpc' = "done"
             /\ cexc' = "IndexError"
             /\ UNCHANGED <<cpath, to_create>>
        ELSE /\ to_create' = Append(to_create, path_spl[Len(path_spl) - 1])
             /\ cpath' = Rejoined(SubSeq(path_spl, 1, Len(path_spl) - 2))
             /\ UNCHANGED <<cpc, cexc>>
  /\ UNCHANGED <<config, args, sweep, disk, io, pipe_args, pipe, saver,
                 doc_string, doc_tags, instr, dirs, original_path, answer,
                 self_path>>

\* os.mkdir(path): the exception, or "none"
MkdirRaises(fs, text) ==
  LET dir == Resolve(text)
  IN IF dir \in fs THEN "FileExistsError"
     ELSE IF SubSeq(dir, 1, Len(dir) - 1) \notin fs THEN "FileNotFoundError"
     ELSE "none"

\* lines 150-157: the next directory is made, or self.path is set
CreateNext ==
  /\ cpc = "create"
  /\ IF to_create = <<>>
     THEN /\ self_path' = <<cpath>>
          /\ cpc' = "done"
          /\ UNCHANGED <<dirs, cpath, to_create, cexc>>
     ELSE LET made_path == cpath \o Head(to_create) \o <<Delimiter>>
          IN IF MkdirRaises(dirs, made_path) # "none"
             THEN /\ cexc' = MkdirRaises(dirs, made_path)
                  /\ cpc' = "done"
                  /\ UNCHANGED <<dirs, cpath, to_create, self_path>>
             ELSE /\ dirs' = dirs \cup {Resolve(made_path)}
                  /\ cpath' = made_path
                  /\ to_create' = Tail(to_create)
                  /\ UNCHANGED <<cpc, self_path, cexc>>
  /\ UNCHANGED <<config, args, sweep, disk, io, pipe_args, pipe, saver,
                 doc_string, doc_tags, instr, original_path, answer>>

NextConfigPath == ConfigPath \/ SearchUp \/ CreateNext

SpecConfigPath == InitFile /\ [][NextConfigPath]_vars

\* =================================================== claims: the sweep
\* the positions of an event in the log
At(e) == {i \in DOMAIN events : events[i] = e}

\* the call got past lines 257-267, into the try block
EnteredTry ==
  /\ pc # "start"
  /\ ~checks_raises /\ has_run_function /\ has_path
  /\ Range(scan_param_order) = DOMAIN kw_scan_params

\* scan_param_order lists every key once
NoRepeat == \A i, j \in DOMAIN scan_param_order :
              scan_param_order[i] = scan_param_order[j] => i = j

\* every value of kw_scan_params is a list
AllLists == \A k \in DOMAIN kw_scan_params : kw_scan_params[k].kind = "list"

\* C1, as stated: every call of n_param_scan, returning or raising, has
\* invoked terminate() exactly once when control is back at the caller.
C1_TerminateOnEveryCall == pc = "done" => Cardinality(At("terminate")) = 1

\* C1, amended: a call that gets past the checks before the try block
\* (checks(), the hooks, the key sets) invokes terminate() exactly once, after
\* the last trial and before control is back at the caller; until then
\* terminate() has not run and the caller has nothing. A call those checks
\* reject raises without invoking terminate().
C1_TerminateOnceAfterTry ==
  /\ pc \in {"start", "loop", "finally"} => At("terminate") = {} /\ outcome = "none"
  /\ EnteredTry /\ pc \in {"exit", "done"} =>
       /\ Cardinality(At("terminate")) = 1
       /\ \A i \in At("run"), j \in At("terminate") : i < j
       /\ \A j \in At("terminate"), i \in At("return") \cup At("raise") : j < i
  /\ EnteredTry /\ pc = "done" =>
       /\ Cardinality(At("return") \cup At("raise")) = 1
       /\ outcome # "none"
  /\ ~EnteredTry /\ pc = "done" => At("terminate") = {} /\ outcome # "none"

C1_Witness ==
  /\ pc = "done" /\ EnteredTry
  /\ outcome = "RunError"
  /\ Len(calls) >= 2
  /\ events[Len(events) - 1] = "terminate"

\* the value of scan_param_order[j] in the q-th combination (q from 0) when
\* the entries before j have run through all their candidates before entry
\* j advances: the first-listed key is the fastest
FirstListedFastest(q, j) ==
  LET stride == Prod([m \in 1 .. j - 1 |->
                        Len(kw_scan_params[scan_param_order[m]].items)])
      items == kw_scan_params[scan_param_order[j]].items
  IN items[((q \div stride) % Len(items)) + 1]

\* the same with the entries after j running through theirs first: the
\* last-listed key is the fastest
LastListedFastest(q, j) ==
  LET n == Len(scan_param_order)
      stride == Prod([m \in 1 .. n - j |->
                        Len(kw_scan_params[scan_param_order[j + m]].items)])
      items == kw_scan_params[scan_param_order[j]].items
  IN items[((q \div stride) % Len(items)) + 1]

\* C2, as stated: the trials run through the combinations with the key listed
\* last in scan_param_order varying fastest and the key listed first slowest.
C2_LastListedFastest ==
  EnteredTry /\ NoRepeat /\ AllLists =>
    \A i \in DOMAIN calls : \A j \in DOMAIN scan_param_order :
      calls[i].kwargs[scan_param_order[j]]
        = LastListedFastest((i - 1) \div ntrials, j)

\* C2, amended: the key listed first in scan_param_order varies fastest and
\* the key listed last slowest: trial i runs combination (i-1) div ntrials,
\* counted with the first-listed key as the least significant digit.
C2_FirstListedFastest ==
  EnteredTry /\ NoRepeat /\ AllLists =>
    \A i \in DOMAIN calls : \A j \in DOMAIN scan_param_order :
      calls[i].kwargs[scan_param_order[j]]
        = FirstListedFastest((i - 1) \div ntrials, j)

\* scan_params={'a':[1,2],'b':[10,20]}, order=['a','b'] has run to its end:
\* (a=1,b=10), (a=2,b=10), (a=1,b=20), (a=2,b=20)
C2_Witness ==
  /\ pc = "done" /\ outcome = "returned" /\ ntrials = 1
  /\ scan_param_order = <<"a", "b">>
  /\ DOMAIN kw_scan_params = {"a", "b"} /\ AllLists
  /\ kw_scan_params["a"].items = <<1, 2>>
  /\ kw_scan_params["b"].items = <<10, 20>>
  /\ [i \in DOMAIN calls |-> <<calls[i].kwargs["a"], calls[i].kwargs["b"]>>]
       = << <<1, 10>>, <<2, 10>>, <<1, 20>>, <<2, 20>> >>

\* C3: a sweep that was accepted and in which nothing raised has run (product
\* of the candidate-list lengths) x ntrials trials, every combination ntrials
\* times in a row, and that number is the total of the progress lines.
C3_TrialCount ==
  pc = "done" /\ outcome = "returned" =>
    LET n == Prod(SizesOf(kw_scan_params, DOMAIN kw_scan_params)) * ntrials
    IN /\ Len(calls) = n
       /\ \A i \in DOMAIN progress : progress[i] = <<i, n>>
       /\ \A i \in DOMAIN calls : calls[i].pos = ((i - 1) \div ntrials) + 1

\* C4: once a trial has raised no further trial starts, terminate() runs and
\* the caller gets that same exception.
C4_TrialErrorPropagates ==
  \A i \in DOMAIN calls :
    calls[i].exc # "none" =>
      /\ i = Len(calls)
      /\ pc \in {"exit", "done"} => At("terminate") # {}
      /\ pc = "done" => outcome = calls[i].exc

C6_MissingHookBeforeAnyRun ==
  pc # "start" /\ (~terminate_overridden \/ ~has_run_function \/ ~has_path) =>
    /\ calls = <<>>
    /\ pc = "done" => outcome \notin {"none", "returned"}

\* the value the current params holds for a scanned key: that of the last
\* entry of scan_param_order[::-1] naming the key
CombinationValue(p, key) ==
  LET rev == Reverse(scan_param_order)
      last == CHOOSE i \in DOMAIN rev :
                rev[i] = key /\ \A j \in DOMAIN rev : rev[j] = key => j <= i
  IN iterable_param_list[p][last]

\* C7: every trial passes the run function exactly the caller's fixed_params
\* overlaid by the current combination: a scanned key has the combination's
\* value, every other key its value in fixed_params.
C7_KwargsAreFixedOverlaid ==
  \A i \in DOMAIN calls :
    /\ DOMAIN calls[i].kwargs = DOMAIN fixed_at_call \cup DOMAIN kw_scan_params
    /\ \A k \in DOMAIN calls[i].kwargs :
         calls[i].kwargs[k] =
           IF k \in DOMAIN kw_scan_params
           THEN CombinationValue(((i - 1) \div ntrials) + 1, k)
           ELSE fixed_at_call[k]

\* a scanned key that fixed_params also holds has moved on to its second
\* candidate, next to a key that is only in fixed_params
C7_Witness ==
  /\ Len(calls) >= 3
  /\ "a" \in DOMAIN fixed_at_call /\ "a" \in DOMAIN kw_scan_params
  /\ calls[1].kwargs["a"] = 1
  /\ calls[Len(calls)].kwargs["a"] = 2
  /\ calls[Len(calls)].kwargs["c"] = fixed_at_call["c"]

\* ========================================= claims: the trial recorder
\* the calls of trial() that got as far as writing a data file, in order
Wrote == SelectSeq(trial_log, LAMBDA e : e.exc \in {"none", "ValueError"})

\* the calls of trial() that ran to their end, in order
Accepted == SelectSeq(trial_log, LAMBDA e : e.exc = "none")

\* the last entry of a log
Last(log) == log[Len(log)]

\* how many of the first n entries of a log have the base name b
SameBase(log, n, b) ==
  Cardinality({j \in 1 .. n : log[j].ro.base_name = b})

\* C8: as long as every name was derived (no prompt), the i-th trial written
\* under a base name gets the suffix i-1 of that base name, so n trials with
\* one base name in an empty directory give the suffixes 0 .. n-1 in order,
\* and every data file still holds what its own trial wrote.
C8_LowestUnusedSuffix ==
  (\A i \in DOMAIN Wrote : ~Wrote[i].prompted) =>
    /\ \A i \in DOMAIN Wrote :
         /\ Wrote[i].save_name
              = SaveName(Wrote[i].ro.base_name,
                         SameBase(Wrote, i - 1, Wrote[i].ro.base_name))
         /\ Wrote[i].save_name \in DOMAIN files
         /\ files[Wrote[i].save_name].df = Wrote[i].ro.df
    /\ DOMAIN files = {Wrote[i].save_name : i \in DOMAIN Wrote}
    /\ Cardinality(DOMAIN files) = Len(Wrote)

\* three trials under one base name, none prompted: suffixes 0, 1, 2
C8_Witness ==
  /\ Len(Wrote) = 3
  /\ \A i \in DOMAIN Wrote : ~Wrote[i].prompted /\ Wrote[i].ro.base_name = <<"t">>
  /\ DOMAIN files = {SaveName(<<"t">>, k) : k \in 0 .. 2}

\* what a cell says whatever its notation: the number of a numeric text
\* (7 for "7", "07" and "7.0"), else the text itself
Canon(text) == IF text.k \in {"int", "padded", "float"} THEN TInt(text.v) ELSE text

\* row i of the index says what the trial e recorded
RowIs(i, e) ==
  /\ i <= index.nrows
  /\ index.columns = DOMAIN e.meta_data
  /\ \A c \in index.columns :
       Canon(index.col[c][i]) = Canon(ToCsvText(e.meta_data[c]))

\* C9, as stated: the index has one row for every trial executed, in
\* execution order, created by the first; every trial result is in one data
\* file and one index row.
C9_OneRowPerTrial ==
  /\ index.exists <=> Wrote # <<>>
  /\ index.nrows = Len(Wrote)
  /\ \A i \in DOMAIN Wrote : RowIs(i, Wrote[i])

\* C9, amended: the index has one row for every trial that trial() ran to its
\* end, in execution order, created by the first of them; a later trial keeps
\* the earlier rows, cell for cell the same values (pandas re-reads and
\* re-writes them, so a number may change notation); every such trial has
\* written its data file. A trial rejected for its columns adds no row.
C9_OneRowPerAcceptedTrial ==
  /\ index.exists <=> Accepted # <<>>
  /\ index.nrows = Len(Accepted)
  /\ \A i \in DOMAIN Accepted :
       /\ RowIs(i, Accepted[i])
       /\ Accepted[i].save_name \in DOMAIN files
  /\ save_meta_data_pickle => pickle.exists = index.exists /\ pickle.nrows = index.nrows

\* two accepted trials and then a rejected one; the first row's trial
\* number, written as 0, now reads 0.0 beside the second's empty one
C9_Witness ==
  /\ Len(Accepted) = 2
  /\ Len(Wrote) = 3
  /\ Last(trial_log).exc = "ValueError"
  /\ index.nrows = 2
  /\ index.col["trial"][1] = TFloat(0)
  /\ index.col["trial"][2] = TEmpty

\* C10: a call of trial() whose meta data keys differ from the columns of the
\* existing index raises an error naming the data file, leaves meta_data.csv
\* and its pickle exactly as they were, and leaves the data file it wrote.
C10_MismatchRejected ==
  [][(/\ Len(trial_log') = Len(trial_log) + 1
      /\ Last(trial_log').ro.kind = "ok"
      /\ index.exists
      /\ DOMAIN Last(trial_log').meta_data # index.columns)
     => LET e == Last(trial_log') IN
        /\ e.exc = "ValueError"
        /\ e.msg_file = e.save_name
        /\ index' = index
        /\ pickle' = pickle
        /\ e.save_name \in DOMAIN files'
        /\ files'[e.save_name].df = e.ro.df]_vars

\* a trial with the keys p, q has been rejected by an index with two rows of
\* the key p; its data file is there
C10_Witness ==
  /\ trial_log # <<>>
  /\ Last(trial_log).exc = "ValueError"
  /\ "q" \in DOMAIN Last(trial_log).meta_data
  /\ index.nrows = 2 /\ "q" \notin index.columns
  /\ Last(trial_log).save_name \in DOMAIN files

\* C11, as stated: a call of trial() that rejects its row for a column
\* mismatch has written or changed nothing in the destination directory.
C11_RejectWritesNothing ==
  [][(/\ Len(trial_log') = Len(trial_log) + 1
      /\ Last(trial_log').exc = "ValueError")
     => files' = files /\ index' = index /\ pickle' = pickle]_vars

\* C11, amended: a call of trial() that rejects its row for a column mismatch
\* leaves meta_data.csv and its pickle as they were; the one change in the
\* directory is the call's own data file, written before the columns are
\* compared, and when its name was derived (not typed at the prompt) that
\* file is a new one, so no file that was there is changed.
C11_RejectWritesOnlyDataFile ==
  [][(/\ Len(trial_log') = Len(trial_log) + 1
      /\ Last(trial_log').exc = "ValueError")
     => LET e == Last(trial_log') IN
        /\ index' = index
        /\ pickle' = pickle
        /\ DOMAIN files' = DOMAIN files \cup {e.save_name}
        /\ \A n \in DOMAIN files \ {e.save_name} : files'[n] = files[n]
        /\ files'[e.save_name].df = e.ro.df
        /\ ~e.prompted => e.save_name \notin DOMAIN files]_vars

\* a derived name rejected in a directory where only df.to_csv works: the
\* third data file is there beside an index of two rows
C11_Witness ==
  /\ trial_log # <<>>
  /\ Last(trial_log).exc = "ValueError"
  /\ ~Last(trial_log).prompted
  /\ writer = "fallback"
  /\ Cardinality(DOMAIN files) = 3
  /\ index.nrows = 2

\* C12: a call of trial() whose run function returned a DataFrame and that
\* got past the write step has left a data file of its name holding the
\* trial's rows: written by write_ekpy_data with the header, or, when that
\* raised, by df.to_csv without it. Only both of them raising stops the call
\* at the write step.
C12_FallbackKeepsData ==
  trial_log # <<>> /\ Last(trial_log).ro.kind = "ok" =>
    LET e == Last(trial_log) IN
    /\ e.exc = "OSError" <=> e.writer = "fails"
    /\ e.exc \in {"none", "ValueError"} =>
         /\ e.save_name \in DOMAIN files
         /\ files[e.save_name].df = e.ro.df
         /\ files[e.save_name].header = (e.writer = "ok")
         /\ e.writer = "ok" => files[e.save_name].meta_data = e.meta_data

\* two trials ran to their end in a directory where write_ekpy_data raises:
\* both data files are there, without header
C12_Witness ==
  /\ writer = "fallback"
  /\ Len(Accepted) = 2 /\ Len(trial_log) = 2
  /\ Cardinality(DOMAIN files) = 2
  /\ \A n \in DOMAIN files : ~files[n].header
  /\ index.nrows = 2

\* C13: trial() adds 'trial' and 'filename' to the meta data and changes no
\* other key: with a derived name, the name and its numeric suffix; when
\* deriving the name fails, the name typed at the prompt and not-a-number,
\* and the call goes on as any other: it writes its data file and, unless the
\* columns differ from the index's, its index row.
C13_PromptedTrialGoesOn ==
  trial_log # <<>> /\ Last(trial_log).ro.kind = "ok" =>
    LET e == Last(trial_log) IN
    /\ DOMAIN e.meta_data = DOMAIN e.ro.meta_data \cup {"trial", "filename"}
    /\ \A k \in DOMAIN e.ro.meta_data \ {"trial", "filename"} :
         e.meta_data[k] = e.ro.meta_data[k]
    /\ e.meta_data["filename"] = PyStr(TWord(e.save_name))
    /\ e.name_fails => e.prompted
    /\ ~e.prompted =>
         \E k \in 0 .. Len(trial_log) :
           /\ e.save_name = SaveName(e.ro.base_name, k)
           /\ e.meta_data["trial"] = PyInt(k)
    /\ e.prompted =>
         /\ e.save_name \in PromptNames
         /\ e.meta_data["trial"] = PyNaN
         /\ \/ e.exc = "none"
            \/ e.exc = "ValueError" /\ DOMAIN e.meta_data # index.columns
            \/ e.exc = "OSError" /\ e.writer = "fails"
         /\ e.writer # "fails" =>
              /\ e.save_name \in DOMAIN files
              /\ files[e.save_name].df = e.ro.df
         /\ e.exc = "none" =>
              /\ index.col["filename"][index.nrows] = TWord(e.save_name)
              /\ index.col["trial"][index.nrows] = TEmpty

\* after a trial with a derived name, one whose name had to be typed in has
\* its data file and the second row of the index
C13_Witness ==
  /\ Len(trial_log) = 2
  /\ ~trial_log[1].prompted /\ trial_log[1].exc = "none"
  /\ trial_log[2].name_fails /\ trial_log[2].exc = "none"
  /\ trial_log[2].save_name \in DOMAIN files
  /\ index.nrows = 2
  /\ index.col["trial"][1] = TFloat(0)
  /\ index.col["trial"][2] = TEmpty

\* ========================================= claims: the data file format
\* the meta data read back is the one written, every value as its str()
SameMetaData(read, written) ==
  /\ DOMAIN read = {<<k>> : k \in DOMAIN written}
  /\ \A k \in DOMAIN written : read[<<k>>] = PyStr(StrOf(written[k]))

\* C14: write_ekpy_data followed by read_ekpy_data(..., return_meta_data=True)
\* on the same file returns a table equal to the one written and a meta data
\* mapping with the same keys whose values are the str() of those written,
\* for every table and every meta data mapping.
C14_RoundTrip ==
  origin = "ekpy" /\ got # NotRead /\ return_meta_data =>
    /\ got.kind = "ok"
    /\ got.table = given_data
    /\ SameMetaData(got.meta_data, given_meta)

\* some line of the file holds the ending sentinel
HasEnd == \E i \in DOMAIN file_lines : Contains(file_lines[i], HeadingComplete)

\* every column of a frame is all int, all float or NaN, or all non-empty
\* words: what DataFrame.to_csv and pandas.read_csv give back unchanged
CsvStable(frame) ==
  \A c \in frame.columns :
       \/ \A i \in DOMAIN frame.col[c] : frame.col[c][i].t = "int"
       \/ \A i \in DOMAIN frame.col[c] : frame.col[c][i].t \in {"float", "nan"}
       \/ \A i \in DOMAIN frame.col[c] :
            /\ frame.col[c][i].t = "str"
            /\ frame.col[c][i].x.k = "word"
            /\ frame.col[c][i].x.s # <<>>

CurrentBefore(i) ==
  LET earlier == {j \in 1 .. i - 1 : ~applied[j].result.none}
  IN IF earlier = {} THEN data0
     ELSE applied[CHOOSE j \in earlier : \A k \in earlier : k <= j].result

\* C16: the transforms are applied in the order of the list, one at a time:
\* each gets the result of the latest earlier transform that returned one
\* (the initial data if none did), and the snapshot of every result is in
\* data_saver before the next transform runs.
C16_InOrderOnLatest ==
  /\ Len(applied) <= Len(functions_list)
  /\ \A i \in DOMAIN applied :
       /\ applied[i].name = functions_list[i]
       /\ applied[i].input = CurrentBefore(i)
       /\ i < Len(applied) /\ ~applied[i].result.none
            => i \in DOMAIN data_saver /\ data_saver[i] = applied[i].result

\* three transforms ran, the second returned nothing, the third worked on
\* the result of the first
C16_Witness ==
  /\ Len(applied) = 3
  /\ ~applied[1].result.none
  /\ applied[2].result.none
  /\ ~applied[3].result.none
  /\ applied[3].input = applied[1].result
  /\ applied[3].input # data0
  /\ DOMAIN data_saver = {0, 1, 3}

\* C17: a transform that returns nothing does not end the pipeline, leaves
\* the current data as it is for the next transform, adds no snapshot and
\* adds nothing to the lists of modified fields, of plotted-against fields
\* and of skipped plots.
C17_NoneResultSkipsStep ==
  [][Len(applied') = Len(applied) + 1 /\ Last(applied').result.none
       => /\ ppc' = "loop"
          /\ raised' = raised
          /\ step' = step + 1
          /\ data' = data
          /\ data_saver' = data_saver
          /\ funcs_modified' = funcs_modified
          /\ plotted_against_list' = plotted_against_list
          /\ skip_plot_list' = skip_plot_list]_vars

\* a transform returned nothing and the next one ran on the same data
C17_Witness ==
  /\ Len(applied) = 2
  /\ applied[1].result.none
  /\ ~applied[2].result.none
  /\ applied[2].input = applied[1].input
  /\ DOMAIN data_saver = {0, 2}
  /\ Len(funcs_modified) = 2
  /\ Len(plotted_against_list) = 2
  /\ Len(skip_plot_list) = 2

\* the names the caller asked to skip
Requested == {skip_func.names[i] : i \in DOMAIN skip_func.names}

\* C18: with skip_func a name or a list of names, no named transform of the
\* module's list is applied, all the others are applied in order, and a
\* warning is printed for exactly the requested names that are no transform
\* of the module.
C18_NamedAreSkipped ==
  LET Kept(name) == name \notin Requested
      known == {module_all[i] : i \in DOMAIN module_all}
  IN ppc # "idle" =>
       /\ functions_list = SelectSeq(module_all, Kept)
       /\ \A i \in DOMAIN applied : applied[i].name \notin Requested
       /\ UNION {{warnings[i].names[j] : j \in DOMAIN warnings[i].names} :
                   i \in DOMAIN warnings}
            = Requested \ known

\* the fields of a data object
Fields(d) == {d.keys[i] : i \in DOMAIN d.keys}

\* C19: the result is the original data plus one field, the last field of
\* the data produced last: every field of the original has its original
\* value in the result, also when a transform overwrote it or when every
\* transform was skipped.
C19_OriginalPlusLastField ==
  ~data_out.none =>
    LET last == data.keys[Len(data.keys)]
    IN /\ Fields(data_out) = Fields(data0) \cup {last}
       /\ last \notin Fields(data0) => data_out.val[last] = data.val[last]
       /\ \A k \in Fields(data0) : data_out.val[k] = data0.val[k]

\* C20: with saveall, a snapshot folder that exists makes the search go on
\* to a further numbered name; the search always ends; and when the 1000
\* numbered names tried all exist as well, ValueError is raised with no
\* folder made and no snapshot written.
C20_SearchEndsAtCap ==
  /\ [](raised = "ValueError"
          => iterator = MaxAttempts + 1 /\ made = {} /\ saved = {})
  /\ [][ppc = "search" /\ Exists(path)
          => /\ made' = made
             /\ saved' = saved
             /\ IF iterator - 1 >= MaxAttempts
                THEN raised' = "ValueError" /\ ppc' = "done"
                ELSE /\ ppc' = "search"
                     /\ raised' = raised
                     /\ path' # path
                     /\ Number(path') # <<>>
                     /\ iterator' = iterator + 1]_vars
  /\ (ppc = "search") ~> (ppc = "done")

\* the default folder and the 1000 numbered ones were all there
C20_Witness ==
  /\ saveall
  /\ folders = Every
  /\ ppc = "done"
  /\ raised = "ValueError"
  /\ iterator = MaxAttempts + 1
  /\ Len(Number(path)) = 1 + 90 + 2 * 900 + 3

\* =================================================== claims: the index, again

\* C21: after any calls of trial() on one directory, accepted or rejected,
\* the rows of meta_data.csv have one column set, the meta data keys of the
\* first trial recorded there; no row with other keys is ever added.
C21_OneColumnSet ==
  /\ [](index.exists
          => /\ Accepted # <<>>
             /\ index.columns = DOMAIN Accepted[1].meta_data
             /\ \A i \in DOMAIN Accepted :
                  DOMAIN Accepted[i].meta_data = index.columns
             /\ \A c \in index.columns : Len(index.col[c]) = index.nrows)
  /\ [][index' # index
          => /\ DOMAIN Last(trial_log').meta_data = index'.columns
             /\ index.exists => index'.columns = index.columns]_vars

\* an index with the keys p and q turned a trial with the key p away and
\* then took another with p and q
C21_Witness ==
  /\ Len(trial_log) = 3
  /\ trial_log[1].exc = "none"
  /\ trial_log[2].exc = "ValueError"
  /\ "q" \notin DOMAIN trial_log[2].meta_data
  /\ trial_log[3].exc = "none"
  /\ index.nrows = 2
  /\ index.columns = {"p", "q", "trial", "filename"}

\* =================================================== claims: the docstring tags

Blank == {" ", "NL"}

\* the text behind the first occurrence of a tag
Behind(doc, tag) == SubSeq(doc, Find(doc, tag) + 1, Len(doc))

\* where the field written behind a tag starts and where it is over
FieldStart(toks) ==
  LET inked == {i \in DOMAIN toks : toks[i] # " "}
  IN IF inked = {} THEN Len(toks) + 1
     ELSE CHOOSE i \in inked : \A j \in inked : i <= j
FieldStop(toks) ==
  LET over == {i \in DOMAIN toks : i >= FieldStart(toks) /\ toks[i] \in Blank}
  IN IF over = {} THEN Len(toks) + 1
     ELSE CHOOSE i \in over : \A j \in over : i <= j

\* TAG<field>: the field is the word behind the tag
FieldOf(doc, tag) ==
  SubSeq(Behind(doc, tag), FieldStart(Behind(doc, tag)),
         FieldStop(Behind(doc, tag)) - 1)

\* what follows the field
BehindField(doc, tag) ==
  SubSeq(Behind(doc, tag), FieldStop(Behind(doc, tag)), Len(Behind(doc, tag)))

\* the docstring embeds TAG<field>: a field of plain words, nothing else on
\* its line
Embeds(doc, tag) ==
  /\ Find(doc, tag) # 0
  /\ FieldOf(doc, tag) # <<>>
  /\ \A i \in DOMAIN FieldOf(doc, tag) : FieldOf(doc, tag)[i] \in {"x", "t"}
  /\ \A i \in DOMAIN BehindField(doc, tag) :
       (\A j \in 1 .. i : BehindField(doc, tag)[j] # "NL")
         => BehindField(doc, tag)[i] = " "

\* C22, as stated: for a docstring that embeds MODIFIES:<field> and
\* PLOT_AGAINST:<field2>, in either order and on any line, the function
\* returns exactly the two fields; each is None when its tag is absent, and
\* skip_plot is true exactly when SKIP_PLOT occurs.
C22_FieldsAnywhere ==
  doc_tags # <<>> =>
    /\ Embeds(doc_string, "MODIFIES:")
         => doc_tags[1].func_name_appended
              = Text(FieldOf(doc_string, "MODIFIES:"))
    /\ Embeds(doc_string, "PLOT_AGAINST:")
         => doc_tags[1].plotted_against
              = Text(FieldOf(doc_string, "PLOT_AGAINST:"))
    /\ Find(doc_string, "MODIFIES:") = 0
         => doc_tags[1].func_name_appended = NoText
    /\ Find(doc_string, "PLOT_AGAINST:") = 0
         => doc_tags[1].plotted_against = NoText
    /\ doc_tags[1].skip_plot <=> Find(doc_string, "SKIP_PLOT") # 0

\* C22, amended: the modified field is returned exactly when nothing but
\* white space follows MODIFIES:<field> to the end of the docstring, and the
\* plotted-against field when a line break follows PLOT_AGAINST:<field2>;
\* each is None when its tag is absent, and skip_plot is true exactly when
\* SKIP_PLOT occurs.
C22_FieldsInPlace ==
  doc_tags # <<>> =>
    /\ (/\ Embeds(doc_string, "MODIFIES:")
        /\ \A i \in DOMAIN BehindField(doc_string, "MODIFIES:") :
             BehindField(doc_string, "MODIFIES:")[i] \in Blank)
         => doc_tags[1].func_name_appended
              = Text(FieldOf(doc_string, "MODIFIES:"))
    /\ (/\ Embeds(doc_string, "PLOT_AGAINST:")
        /\ Find(Behind(doc_string, "PLOT_AGAINST:"), "NL") # 0)
         => doc_tags[1].plotted_against
              = Text(FieldOf(doc_string, "PLOT_AGAINST:"))
    /\ Find(doc_string, "MODIFIES:") = 0
         => doc_tags[1].func_name_appended = NoText
    /\ Find(doc_string, "PLOT_AGAINST:") = 0
         => doc_tags[1].plotted_against = NoText
    /\ doc_tags[1].skip_plot <=> Find(doc_string, "SKIP_PLOT") # 0

\* PLOT_AGAINST:t on the line before the closing MODIFIES:x
C22_Witness ==
  /\ doc_string = <<"PLOT_AGAINST:", "t", "NL", "MODIFIES:", "x">>
  /\ doc_tags = <<[func_name_appended |-> Text(<<"x">>),
                   plotted_against |-> Text(<<"t">>),
                   skip_plot |-> FALSE]>>

\* =================================================== claims: the instruments

\* the commands a call wrote
SentNow == SubSeq(sent', Len(sent) + 1, Len(sent'))

\* the channels of the commands of a call that start with head
ChannelsOf(cmds, head) ==
  {cmds[i][2] : i \in {j \in DOMAIN cmds : cmds[j][1] = head}}

\* C23: set_low_voltage, set_high_voltage and set_pulsewidth write the
\* setting to the channels 1 and 2 exactly when both is true and to the
\* given channel only when it is false; the two voltage functions switch
\* the outputs they write to off before they write the level.
C23_BothMeansBoth ==
  [][icall'.nth = icall.nth + 1 /\ iexc' = "none"
       => LET meant == IF icall'.both THEN {"1", "2"}
                       ELSE {icall'.channel.text}
          IN /\ ChannelsOf(SentNow, "SOURce") = meant
             /\ icall'.fn # "set_pulsewidth"
                  => /\ ChannelsOf(SentNow, "OUTPut") = meant
                     /\ \A i, j \in DOMAIN SentNow :
                          SentNow[i][1] = "OUTPut" /\ SentNow[j][1] = "SOURce"
                            => i < j]_vars

\* the operation-complete summary, bit 5 of the status byte
CompleteBit(status) == (status \div 32) % 2 = 1

\* C24: wait_for_acq_complete returns only once the operation-complete bit
\* was seen set in the status byte, or after `timeout` polls when it reports
\* a time-out, and it ends without raising for every timeout and every
\* sequence of status bytes.
C24_ReturnsOnCompleteOrTimeout ==
  icall.fn = "wait_for_acq_complete" /\ icall.pc = "done"
    => /\ iexc = "none"
       /\ IF icall.timed_out THEN icall.polls = icall.timeout
          ELSE icall.polls > 0 /\ CompleteBit(icall.status)

\* the element type for a data format and the unsigned flag
ElementType(format, unsigned) ==
  CASE format = 0 -> IF unsigned = "ON" THEN "B" ELSE "b"
    [] format = 1 -> IF unsigned = "ON" THEN "H" ELSE "h"
    [] OTHER -> "ascii"

\* C25: query_wf makes exactly one waveform data query, its element type
\* the one of the preamble's data format and the unsigned flag, with the
\* byte order asked for, for every format, flag and byte order, and returns
\* a time list of `points` entries and the scaled values without error.
C25_OneMatchingDataQuery ==
  icall.fn = "query_wf" =>
    LET asked == SelectSeq(sent, LAMBDA q : q[1] = "WAVeform:DATA?")
        type == ElementType(icall.preamble.format, icall.unsigned)
    IN /\ iexc = "none"
       /\ Len(asked) = 1
       /\ asked[1][2] = type
       /\ type # "ascii"
            => asked[1][3] = (IF icall.byte_order = "MSBF" THEN "big"
                              ELSE "little")
       /\ Len(icall.time) = icall.preamble.points
       /\ icall.wfm = [i \in 1 .. icall.preamble.points |->
                         10 * i * icall.preamble.y_increment
                           + icall.preamble.y_origin]

\* C26: configure_scale writes the time scale and then the vertical scale of
\* the selected channel to the scope and returns without error, for every
\* argument value.
C26_WritesBothScales ==
  icall.fn = "configure_scale" =>
    /\ iexc = "none"
    /\ sent = <<<<"TIMebase:SCALe ", icall.time_scale>>,
                <<"CHANnel", icall.channel, ":SCALe ", icall.vertical_scale>>>>

\* =================================================== claims: config_path

\* C27: for a path that ends with the delimiter and is not there, answered
\* with 'y', the search for an ancestor ends, the missing directories are
\* made from the outermost on, and on return self.path is the path asked for
\* and that directory is there; a path (of at least one character) that does
\* not end with the delimiter is rejected with ValueError, self.path not set.
C27_PathMadeAndSet ==
  cpc = "done" /\ original_path # <<>> =>
    IF original_path[Len(original_path)] = Delimiter
    THEN Lower(answer) = "y"
           => /\ cexc = "none"
              /\ self_path = <<original_path>>
              /\ Resolve(original_path) \in dirs
    ELSE cexc = "ValueError" /\ self_path = <<>>

\* =================================================== claims: the sweep's arguments

\* C28: n_param_scan only reads its arguments: when the call is over,
\* returned or raised, the caller's fixed_params and kw_scan_params hold the
\* keys and values they held before it.
C28_ArgumentsOnlyRead ==
  /\ [](pc = "done" => fixed_params = fixed_at_call)
  /\ [][pc # "start" => kw_scan_params' = kw_scan_params]_vars

\* =================================================== claims: where the header ends

\* the index, counted from 0, of the first line with the ending sentinel
FirstEnd(lines) ==
  LET ends == {i \in DOMAIN lines : Contains(lines[i], HeadingComplete)}
  IN (CHOOSE i \in ends : \A j \in ends : i <= j) - 1

\* C29: for a file whose first line holds the starting sentinel and one of
\* whose lines holds the ending one, the table read_ekpy_data returns is the
\* one parsed from the lines after the first line with the ending sentinel,
\* the line _parse_ekpy_meta_data stops at, also when a later line holds the
\* sentinel's text.
C29_TableAfterFirstEnd ==
  got # NotRead /\ ~NoHeading(file_lines) /\ HasEnd =>
    LET first == FirstEnd(file_lines)
        rows == read_csv(SubSeq(file_lines, first + 2, Len(file_lines)))
    IN /\ HeadingEnd(file_lines) = first
       /\ got.kind = "ok" => rows.kind = "ok" /\ got.table = rows.table
       /\ rows.kind # "ok" => got.kind = rows.kind

\* =================================================== claims: the snapshot folder

\* data_saver<k> was there before the call
ExistedBefore(k) ==
  \/ folders.kind = "every"
  \/ folders.kind = "shorter" /\ Len(Str(k)) < folders.n

\* C30: with saveall and no error, the folder made is data_saver<k> for the
\* smallest k >= 0 whose data_saver<k> was not there before the call, and
\* every snapshot is written under the folder made, never under one that was
\* there before.
C30_SmallestFreeNumber ==
  ppc = "done" /\ saveall /\ raised = "none" =>
    /\ made = {path}
    /\ \E k \in 0 .. MaxAttempts :
         /\ Number(path) = Str(k)
         /\ ~ExistedBefore(k)
         /\ \A j \in 0 .. k - 1 : ExistedBefore(j)
    /\ \A f \in saved :
         /\ SubSeq(f, 1, Len(path)) = path
         /\ Len(Number(path)) >= folders.n
====
